---------------------------- MODULE Spec2Model ----------------------------
(***************************************************************************)
(* A model of the says-so-agent backend: the chat orchestrator             *)
(* (chat_route.py), the Sela adapter with its module-level client and      *)
(* activity log (sela_adapter.py), the prompt synthesizer                  *)
(* (tweet_summary_engine.py) and the data-stream encoder (data_stream.py). *)
(*                                                                         *)
(* Python strings are sequences of one-character strings.  Coroutines run  *)
(* on one event loop: `running` names the coroutine that holds the loop,   *)
(* and a coroutine gives the loop up only at an await on external I/O.     *)
(***************************************************************************)
EXTENDS Integers, Sequences, FiniteSets, TLC

(***************************************************************************)
(* Strings                                                                 *)
(***************************************************************************)
\* An optional value (Python's None or a value) is a sequence of length <= 1.
None == <<>>
Some(v) == <<v>>
Val(o) == o[1]

UpperChars ==
    <<"A", "B", "C", "D", "E", "F", "G", "H", "I", "J", "K", "L", "M",
      "N", "O", "P", "Q", "R", "S", "T", "U", "V", "W", "X", "Y", "Z">>
LowerChars ==
    <<"a", "b", "c", "d", "e", "f", "g", "h", "i", "j", "k", "l", "m",
      "n", "o", "p", "q", "r", "s", "t", "u", "v", "w", "x", "y", "z">>
DigitChars == <<"0", "1", "2", "3", "4", "5", "6", "7", "8", "9">>

Range(s) == { s[i] : i \in DOMAIN s }

IsUpper(c) == c \in Range(UpperChars)
IsDigit(c) == c \in Range(DigitChars)
\* the class [A-Za-z0-9_] of the two username patterns, and \w of \b
IsWordChar(c) ==
    c \in Range(UpperChars) \cup Range(LowerChars) \cup Range(DigitChars) \cup {"_"}
\* str.strip() and \s
IsSpace(c) == c \in {" ", "\t", "\n"}

LowerChar(c) ==
    IF IsUpper(c) THEN LowerChars[CHOOSE i \in 1..26 : UpperChars[i] = c] ELSE c
\* str.lower()
Lower(s) == [i \in DOMAIN s |-> LowerChar(s[i])]

DigitVal(c) == (CHOOSE i \in 1..10 : DigitChars[i] = c) - 1

\* s[a..b] with Python's clipping of the bounds
Slice(s, a, b) ==
    IF a > b \/ a > Len(s) THEN <<>>
    ELSE SubSeq(s, IF a < 1 THEN 1 ELSE a, IF b > Len(s) THEN Len(s) ELSE b)

\* str.strip()
Strip(s) ==
    IF \A i \in DOMAIN s : IsSpace(s[i]) THEN <<>>
    ELSE LET lo == CHOOSE i \in DOMAIN s :
                       ~IsSpace(s[i]) /\ \A j \in 1..(i - 1) : IsSpace(s[j])
             hi == CHOOSE i \in DOMAIN s :
                       ~IsSpace(s[i]) /\ \A j \in (i + 1)..Len(s) : IsSpace(s[j])
         IN  SubSeq(s, lo, hi)

\* str.startswith()
StartsWith(s, p) == Len(p) <= Len(s) /\ SubSeq(s, 1, Len(p)) = p

\* does the literal w stand in s at position p
HasAt(s, p, w) ==
    /\ p >= 1
    /\ p + Len(w) - 1 <= Len(s)
    /\ \A i \in 1..Len(w) : s[p + i - 1] = w[i]

\* int() of a str refuses more digits than this (CPython's
\* sys.int_info.default_max_str_digits) with a ValueError
MaxStrDigits == 4300

\* what a call that raised ValueError leaves instead of a value
ValueError == <<"ValueError", "Exceeds the limit (4300 digits) for integer string conversion">>

\* int() of a string of decimal digits
RECURSIVE ParseInt(_)
ParseInt(ds) ==
    IF ds = <<>> THEN 0
    ELSE 10 * ParseInt(SubSeq(ds, 1, Len(ds) - 1)) + DigitVal(ds[Len(ds)])

\* " ".join(parts)
RECURSIVE JoinSpace(_)
JoinSpace(parts) ==
    IF parts = <<>> THEN <<>>
    ELSE IF Len(parts) = 1 THEN parts[1]
    ELSE parts[1] \o <<" ">> \o JoinSpace(Tail(parts))

Min(a, b) == IF a <= b THEN a ELSE b
Max(a, b) == IF a >= b THEN a ELSE b

(***************************************************************************)
(* chat_route.py: the intent parser                                        *)
(***************************************************************************)
_EXACT_GREETINGS ==
    << <<"h", "i">>,
       <<"h", "e", "l", "l", "o">>,
       <<"h", "e", "y">>,
       <<"s", "u", "p">>,
       <<"y", "o">>,
       <<"h", "o", "w", "d", "y">>,
       <<"g", "r", "e", "e", "t", "i", "n", "g", "s">>,
       <<"g", "o", "o", "d", " ", "m", "o", "r", "n", "i", "n", "g">>,
       <<"g", "o", "o", "d", " ", "a", "f", "t", "e", "r", "n", "o", "o", "n">>,
       <<"g", "o", "o", "d", " ", "e", "v", "e", "n", "i", "n", "g">> >>

_GREETING_FOLLOWUPS ==
    << <<"t", "h", "e", "r", "e">>,
       <<"b", "o", "t">>,
       <<"a", "g", "e", "n", "t">>,
       <<"b", "u", "d", "d", "y">>,
       <<"f", "r", "i", "e", "n", "d">>,
       <<"e", "v", "e", "r", "y", "o", "n", "e">>,
       <<"a", "l", "l">> >>

\* variant: every form compared with ==
_is_greeting_exact(text) ==
    LET lower == Strip(Lower(text))
    IN  \/ lower \in Range(_EXACT_GREETINGS)
        \/ \E g \in Range(_EXACT_GREETINGS) :
              \/ lower \in { g \o <<"!">>, g \o <<",">>, g \o <<".">> }
              \/ \E f \in Range(_GREETING_FOLLOWUPS) :
                    lower \in { g \o <<" ">> \o f, g \o <<" ">> \o f \o <<"!">>,
                                g \o <<" ">> \o f \o <<",">> }

_is_greeting(text) ==
    LET lower == Strip(Lower(text))
    IN  \/ lower \in Range(_EXACT_GREETINGS)
        \/ \E g \in Range(_EXACT_GREETINGS) :
              \/ StartsWith(lower, g \o <<"!">>)
              \/ StartsWith(lower, g \o <<",">>)
              \/ StartsWith(lower, g \o <<".">>)
              \/ \E f \in Range(_GREETING_FOLLOWUPS) :
                    \/ lower = g \o <<" ">> \o f
                    \/ StartsWith(lower, g \o <<" ">> \o f \o <<"!">>)
                    \/ StartsWith(lower, g \o <<" ">> \o f \o <<",">>)

\* variant: no upper limit
_clamp_count_low(n) == Max(1, n)

_clamp_count(n) == Max(1, Min(30, n))

\* \b before position p (between s[p-1] and s[p])
WordBoundary(s, p) ==
    LET before == p - 1 >= 1 /\ p - 1 <= Len(s) /\ IsWordChar(s[p - 1])
        after  == p >= 1 /\ p <= Len(s) /\ IsWordChar(s[p])
    IN  before # after

\* the character classes \w, \s and \d
InClass(c, cls) ==
    CASE cls = "w" -> IsWordChar(c)
      [] cls = "s" -> IsSpace(c)
      [] cls = "d" -> IsDigit(c)

\* the length of the run of characters of one class starting at p
RunLen(s, p, cls) ==
    LET stops == { i \in p..Len(s) : ~InClass(s[i], cls) }
    IN  IF p < 1 \/ p > Len(s) THEN 0
        ELSE IF stops = {} THEN Len(s) - p + 1
        ELSE (CHOOSE i \in stops : \A j \in stops : i <= j) - p

CountWords ==
    { <<>>,
      <<"t", "w", "e", "e", "t", "s">>, <<"t", "w", "e", "e", "t">>,
      <<"p", "o", "s", "t", "s">>, <<"p", "o", "s", "t">> }

\* r"\b(\d{1,2})\s*(?:tweets?|posts?)?\b" matched at p with an n-digit group
CountMatchAt(s, p, n) ==
    /\ WordBoundary(s, p)
    /\ p + n - 1 <= Len(s)
    /\ \A i \in p..(p + n - 1) : IsDigit(s[i])
    /\ \E k \in 0..RunLen(s, p + n, "s") :
          \E w \in CountWords :
             /\ HasAt(Lower(s), p + n + k, w)
             /\ WordBoundary(s, p + n + k + Len(w))

\* r"\blast\s+(\d{1,2})\b" matched at p with an n-digit group starting at d
LastMatchAt(s, p, d, n) ==
    /\ WordBoundary(s, p)
    /\ HasAt(Lower(s), p, <<"l", "a", "s", "t">>)
    /\ d > p + 4
    /\ \A i \in (p + 4)..(d - 1) : IsSpace(s[i])
    /\ d + n - 1 <= Len(s)
    /\ \A i \in d..(d + n - 1) : IsDigit(s[i])
    /\ WordBoundary(s, d + n)

_extract_count(text) ==
    LET hits1 == { p \in 1..Len(text) : \E n \in {1, 2} : CountMatchAt(text, p, n) }
        hits2 == { p \in 1..Len(text) :
                     \E d \in 1..Len(text) : \E n \in {1, 2} : LastMatchAt(text, p, d, n) }
        First(S) == CHOOSE p \in S : \A q \in S : p <= q
    IN  IF hits1 # {}
        THEN LET p == First(hits1)
                 n == IF CountMatchAt(text, p, 2) THEN 2 ELSE 1
             IN  _clamp_count(ParseInt(SubSeq(text, p, p + n - 1)))
        ELSE IF hits2 # {}
        THEN LET p == First(hits2)
                 d == CHOOSE d \in 1..Len(text) : \E n \in {1, 2} : LastMatchAt(text, p, d, n)
                 n == IF LastMatchAt(text, p, d, 2) THEN 2 ELSE 1
             IN  _clamp_count(ParseInt(SubSeq(text, d, d + n - 1)))
        ELSE 10

\* a data query is Some(<<username, count>>); no data query is None; the
\* int() of line 112 can raise
_parse_username_and_count(text) ==
    LET trimmed == Strip(text)
        ats     == { p \in 1..Len(trimmed) :
                       /\ trimmed[p] = "@"
                       /\ p + 1 <= Len(trimmed)
                       /\ IsWordChar(trimmed[p + 1]) }
        wlen    == RunLen(trimmed, 1, "w")
        slen    == RunLen(trimmed, wlen + 1, "s")
        dlen    == RunLen(trimmed, wlen + slen + 1, "d")
        bare    == /\ wlen >= 1
                   /\ wlen <= 15
                   /\ \/ wlen = Len(trimmed)
                      \/ slen >= 1 /\ dlen >= 1 /\ wlen + slen + dlen = Len(trimmed)
    IN  IF ats # {}
        THEN LET p == CHOOSE p \in ats : \A q \in ats : p <= q
                 n == Min(15, RunLen(trimmed, p + 1, "w"))
             IN  Some(<<SubSeq(trimmed, p + 1, p + n), _extract_count(trimmed)>>)
        ELSE IF bare /\ ~_is_greeting(trimmed)
        THEN IF dlen > MaxStrDigits THEN ValueError
             ELSE
             Some(<<SubSeq(trimmed, 1, wlen),
                    IF wlen < Len(trimmed)
                    THEN _clamp_count(ParseInt(SubSeq(trimmed, wlen + slen + 1, Len(trimmed))))
                    ELSE 10>>)
        ELSE None

(***************************************************************************)
(* Text built by f-strings is a sequence of pieces: the literal parts are  *)
(* one piece each, an interpolated str contributes its characters, an      *)
(* interpolated exception message is one piece.                            *)
(***************************************************************************)
\* the exception messages the external calls raise with; str(exc) of an
\* exception constructed without arguments (asyncio.TimeoutError()) is ""
LongMessage == "<a message of 7000 characters>"
ExcMessages == {"", "boom", LongMessage}

\* len() of a piece
PieceLen(t) ==
    CASE t = "" -> 0
      [] t = "boom" -> 4
      [] t = LongMessage -> 7000
      [] t = "info" -> 4
      [] t = "error" -> 5
      [] t = "browse" -> 6
      [] t = "system" -> 6
      [] t = "twitter" -> 7
      [] t = "search" -> 6
      [] t = "Sela client started, connected to P2P network" -> 45
      [] t = "Discovered " -> 11
      [] t = " agent(s)" -> 9
      [] t = "Connected to first available agent" -> 34
      [] t = "Failed to initialize Sela: " -> 27
      [] t = "Sela client restarted" -> 21
      [] t = "Failed to restart Sela client: " -> 31
      [] t = "Fetching tweets for @" -> 21
      [] t = "Retrieved " -> 10
      [] t = " tweets for @" -> 13
      [] t = "Failed to fetch tweets for @" -> 28
      [] t = ": " -> 2
      [] t = "Page type: " -> 11
      [] t = "https://x.com/search?q=" -> 23
      [] t = "from%3A" -> 7
      [] t = "&src=typed_query&f=top" -> 22
      [] t = "SELA_API_KEY environment variable is not set" -> 44
      [] t = "No agents with 'web' capability found on the network" -> 52
      [] t = "'NoneType' object has no attribute 'browse'" -> 43
      [] t = "'NoneType' object has no attribute 'start'" -> 42
      [] t = "'list' object has no attribute 'get'" -> 36
      [] OTHER -> 1

RECURSIVE TextLen(_)
TextLen(s) == IF s = <<>> THEN 0 ELSE PieceLen(Head(s)) + TextLen(Tail(s))

\* str(n) of a non-negative int
RECURSIVE IntStr(_)
IntStr(n) ==
    IF n < 10 THEN <<DigitChars[n + 1]>>
    ELSE IntStr(n \div 10) \o <<DigitChars[(n % 10) + 1]>>

(***************************************************************************)
(* sela_adapter.py: the activity log                                       *)
(***************************************************************************)
ActivityLogEntry(id, type_, platform, message, url, details) ==
    [id |-> id, type |-> type_, platform |-> platform,
     message |-> message, url |-> url, details |-> details]

\* variant: the entry is put in front
_log_first(log, id, type_, platform, message, url, details) ==
    <<ActivityLogEntry(id, type_, platform, message, url, details)>> \o log

\* the log after _log(...); the id is the uuid4 drawn for the entry
_log(log, id, type_, platform, message, url, details) ==
    Append(log, ActivityLogEntry(id, type_, platform, message, url, details))

\* the list of dicts get_activity_log() builds from the entries
get_activity_log(log) ==
    [i \in DOMAIN log |->
        [id |-> log[i].id, type |-> log[i].type, platform |-> log[i].platform,
         message |-> log[i].message, url |-> log[i].url, details |-> log[i].details]]

_url_encode_from(username) == <<"from%3A">> \o username

search_url(username) ==
    <<"https://x.com/search?q=">> \o _url_encode_from(username)
        \o <<"&src=typed_query&f=top">>

(***************************************************************************)
(* json.dumps / json.loads of the activity log.  A serialized entry keeps  *)
(* its members in order; None is written as the literal null.  The length  *)
(* is that of the text json.dumps produces with its default separators:    *)
(* a uuid4 is 36 characters and an isoformat UTC timestamp 32.             *)
(***************************************************************************)
JsonNull == <<"null">>

JsonOpt(v) == IF v = None THEN JsonNull ELSE <<"\"">> \o Val(v) \o <<"\"">>

JsonOptLen(v) == IF v = None THEN 4 ELSE 2 + TextLen(Val(v))

JsonEntry(d) ==
    [id |-> d.id, type |-> d.type, platform |-> d.platform,
     message |-> d.message, url |-> JsonOpt(d.url), details |-> JsonOpt(d.details)]

JsonEntryLen(d) ==
    160 + PieceLen(d.type) + PieceLen(d.platform) + TextLen(d.message)
        + JsonOptLen(d.url) + JsonOptLen(d.details)

RECURSIVE SumLen(_)
SumLen(ds) == IF ds = <<>> THEN 0 ELSE JsonEntryLen(Head(ds)) + SumLen(Tail(ds))

\* json.dumps(list of dicts): the text, and len() of it
JsonDumps(ds) ==
    [text |-> [i \in DOMAIN ds |-> JsonEntry(ds[i])],
     len  |-> IF ds = <<>> THEN 2 ELSE 2 + SumLen(ds) + 2 * (Len(ds) - 1)]

JsonUnOpt(j) == IF j = JsonNull THEN None ELSE Some(SubSeq(j, 2, Len(j) - 1))

\* json.loads of such a text
JsonLoads(js) ==
    [i \in DOMAIN js.text |->
        [id |-> js.text[i].id, type |-> js.text[i].type,
         platform |-> js.text[i].platform, message |-> js.text[i].message,
         url |-> JsonUnOpt(js.text[i].url), details |-> JsonUnOpt(js.text[i].details)]]

\* activity_log[-n:]
LastN(s, n) == IF Len(s) <= n THEN s ELSE SubSeq(s, Len(s) - n + 1, Len(s))

HeaderLimit == 7000
HeaderTail == 10

\* variant: the first entries are kept instead of the last
ActivityLogHeaderHead(activity_log) ==
    LET activity_log_json == JsonDumps(activity_log)
    IN  IF activity_log_json.len > HeaderLimit
        THEN JsonDumps(SubSeq(activity_log, 1, Min(HeaderTail, Len(activity_log))))
        ELSE activity_log_json

\* chat(): the x-activity-log header value built from the list read
ActivityLogHeader(activity_log) ==
    LET activity_log_json == JsonDumps(activity_log)
    IN  IF activity_log_json.len > HeaderLimit
        THEN JsonDumps(LastN(activity_log, HeaderTail))
        ELSE activity_log_json

(***************************************************************************)
(* tweet_summary_engine.py                                                 *)
(***************************************************************************)
\* Python truthiness of an optional str
Truthy(o) == o # None /\ Val(o) # ""

\* f.get(k1) or f.get(k2) or ... or "" over a dict of texts
RECURSIVE FirstTruthy(_, _)
FirstTruthy(f, keys) ==
    IF keys = <<>> THEN <<>>
    ELSE IF Head(keys) \in DOMAIN f /\ f[Head(keys)] # <<>> THEN f[Head(keys)]
    ELSE FirstTruthy(f, Tail(keys))

\* one numbered entry of the tweet list
TweetEntry(i, item, username) ==
    LET f          == item.fields
        content    == FirstTruthy(f, <<"content", "text", "title">>)
        likes      == FirstTruthy(f, <<"like_count", "likes">>)
        retweets   == FirstTruthy(f, <<"retweet_count", "retweets">>)
        replies    == FirstTruthy(f, <<"reply_count", "replies">>)
        timestamp  == FirstTruthy(f, <<"timestamp", "date", "time">>)
        author     == FirstTruthy(f, <<"author_name", "author">>)
        is_reply   == FirstTruthy(f, <<"is_reply", "in_reply_to">>)
        is_retweet == FirstTruthy(f, <<"is_retweet", "retweeted">>)
    IN  IntStr(i) \o <<". ">> \o Slice(content, 1, 400)
          \o (IF timestamp # <<>> THEN <<"\n   Time: ">> \o timestamp ELSE <<>>)
          \o (IF likes # <<>> THEN <<" | Likes: ">> \o likes ELSE <<>>)
          \o (IF retweets # <<>> THEN <<" | Retweets: ">> \o retweets ELSE <<>>)
          \o (IF replies # <<>> THEN <<" | Replies: ">> \o replies ELSE <<>>)
          \o (IF author # <<>> /\ Lower(author) # Lower(username)
              THEN <<" | Author: ">> \o author ELSE <<>>)
          \o (IF is_reply # <<>> THEN <<" | [Reply]">> ELSE <<>>)
          \o (IF is_retweet # <<>> THEN <<" | [Retweet]">> ELSE <<>>)

\* variant: only the last entry is joined
JoinEntriesLast(es) ==
    IF es = <<>> THEN <<>> ELSE <<"\n">> \o es[Len(es)]

\* chr(10).join(chr(10).join(['', e]) for e in tweet_entries)
RECURSIVE JoinEntries(_)
JoinEntries(es) ==
    IF es = <<>> THEN <<>>
    ELSE <<"\n">> \o Head(es) \o (IF Len(es) > 1 THEN <<"\n">> ELSE <<>>)
           \o JoinEntries(Tail(es))

ErrorPromptHead == "I tried to fetch tweets for @"
EmptyPromptHead == "I fetched @"
ItemsPromptHead == "Summarize recent Twitter/X activity for @"
FewerNoteHead == "\nNote: "

build_tweet_summary_prompt(username, tweets, count) ==
    IF Truthy(tweets.error)
    THEN <<ErrorPromptHead>> \o username
           \o <<" but encountered an error: ", Val(tweets.error), "\n\n",
                "Please respond with an appropriate error message based on the AGENT.md error handling rules.">>
    ELSE IF tweets.items = <<>>
    THEN <<EmptyPromptHead>> \o username
           \o <<"'s profile but found no recent tweets.", "\n\n",
                "Please respond with an appropriate message (e.g., \"@">>
           \o username \o <<" hasn't posted recently.\").">>
    ELSE LET tweet_entries ==
                 [i \in DOMAIN tweets.items |-> TweetEntry(i, tweets.items[i], username)]
             retrieved_count == Len(tweets.items)
             fewer_note ==
                 IF retrieved_count < count
                 THEN <<FewerNoteHead>> \o IntStr(count)
                        \o <<" tweets were requested but only ">>
                        \o IntStr(retrieved_count)
                        \o <<" were retrieved. Mention this in the summary.">>
                 ELSE <<>>
         IN  <<ItemsPromptHead>> \o username
               \o <<".", "\n\n", "## Retrieved Data", "\n\n", "**Tweets retrieved:** ">>
               \o IntStr(retrieved_count)
               \o <<" (via authenticated Sela Network session)", "\n">>
               \o fewer_note \o <<"\n\n">>
               \o JoinEntries(tweet_entries)
               \o <<"\n\n", "## Instructions", "\n\n",
                    "Based ONLY on the tweets above, produce an activity summary following the exact structure from your system prompt:",
                    "\n", "- Activity Summary header with @">>
               \o username
               \o <<"\n", "<the rest of the instruction block and the rule list>">>

(***************************************************************************)
(* data_stream.py: the encoder.  A frame is the sequence of the pieces of  *)
(* its line; the generator is its position, the frames it has yielded, the *)
(* fragments it has taken from the source and the state of the source.     *)
(***************************************************************************)
\* json.dumps of one character of a str
JsonChar(c) ==
    CASE c = "\"" -> <<"\\", "\"">>
      [] c = "\\" -> <<"\\", "\\">>
      [] c = "\n" -> <<"\\", "n">>
      [] c = "\t" -> <<"\\", "t">>
      [] OTHER -> <<c>>

RECURSIVE JsonChars(_)
JsonChars(text) ==
    IF text = <<>> THEN <<>> ELSE JsonChar(Head(text)) \o JsonChars(Tail(text))

\* json.dumps(text) of a str
JsonDumpsStr(text) == <<"\"">> \o JsonChars(text) \o <<"\"">>

\* variant: the text is quoted without being escaped
_encode_text_delta_unescaped(text) ==
    <<"0", ":", "\"">> \o text \o <<"\"", "\n">>

_encode_text_delta(text) == <<"0", ":">> \o JsonDumpsStr(text) \o <<"\n">>

_encode_start(msg_id) ==
    <<"f", ":", "{\"messageId\":\"", msg_id, "\"}", "\n">>

_encode_step_finish ==
    <<"e", ":",
      "{\"finishReason\":\"stop\",\"usage\":{\"promptTokens\":0,\"completionTokens\":0},\"isContinued\":false}",
      "\n">>

_encode_done ==
    <<"d", ":",
      "{\"finishReason\":\"stop\",\"usage\":{\"promptTokens\":0,\"completionTokens\":0}}",
      "\n">>

\* the generator object format_data_stream(chunks) before its first step
NewStream == [pc |-> "created", frames |-> <<>>, taken |-> <<>>, source |-> "open"]

\* line 35: the first step yields the Start frame
FdsStart(g, msg_id) ==
    [g EXCEPT !.pc = "loop", !.frames = Append(@, _encode_start(msg_id))]

\* variant: every text is yielded, the empty one too
FdsChunkAll(g, text) ==
    [g EXCEPT !.taken = Append(@, text),
              !.frames = Append(@, _encode_text_delta(text))]

\* lines 37-39: the source produces text; a non-empty text is yielded
FdsChunk(g, text) ==
    [g EXCEPT !.taken = Append(@, text),
              !.frames = IF text # <<>> THEN Append(@, _encode_text_delta(text)) ELSE @]

\* variant: the loop is wrapped in a handler that goes on to the trailer
FdsRaiseSwallowed(g) ==
    [g EXCEPT !.pc = "finishing", !.source = "raised",
              !.frames = Append(@, _encode_step_finish)]

\* line 37: the source raises; the exception leaves the generator
FdsRaise(g) == [g EXCEPT !.pc = "raised", !.source = "raised"]

\* variant: Done is yielded in the place of StepFinish
FdsExhaustedDoneFirst(g) ==
    [g EXCEPT !.pc = "finishing", !.source = "exhausted",
              !.frames = Append(@, _encode_done)]

\* lines 37, 41: the source is exhausted; StepFinish is yielded
FdsExhausted(g) ==
    [g EXCEPT !.pc = "finishing", !.source = "exhausted",
              !.frames = Append(@, _encode_step_finish)]

\* line 42: Done is yielded
FdsDone(g) == [g EXCEPT !.pc = "done", !.frames = Append(@, _encode_done)]

\* past line 42: the generator returns
FdsReturn(g) == [g EXCEPT !.pc = "returned"]

(***************************************************************************)
(* chat_route.py: conversations                                            *)
(***************************************************************************)
StrContent(text) == [kind |-> "str", text |-> text, parts |-> <<>>]
PartsContent(parts) == [kind |-> "parts", text |-> <<>>, parts |-> parts]
Turn(role, content) == [role |-> role, content |-> content]

\* the text parts of a content list, in order
RECURSIVE TextParts(_)
TextParts(parts) ==
    IF parts = <<>> THEN <<>>
    ELSE (IF Head(parts).type = "text" THEN <<Head(parts).text>> ELSE <<>>)
           \o TextParts(Tail(parts))

_extract_user_query(message) ==
    IF message.content.kind = "str" THEN message.content.text
    ELSE JoinSpace(TextParts(message.content.parts))

\* {"role": m["role"], "content": _extract_user_query(m)}
FlatTurn(m) == [role |-> m.role, content |-> _extract_user_query(m)]

\* the texts of the user turns of the modelled conversations
TxtHi == <<"h", "i">>
TxtHiBob == <<"h", "i", ",", " ", "@", "b", "o", "b">>
TxtBob1 == <<"@", "b", "o", "b", " ", "1">>
TxtWhat == <<"w", "h", "a", "t", " ", "n", "o", "w">>
TxtOk == <<"o", "k">>
\* "bob " and 4301 digits
TxtBobDigits == <<"b", "o", "b", " ">> \o [i \in 1..(MaxStrDigits + 1) |-> "9"]
PartsAl2 ==
    << [type |-> "text", text |-> <<"@", "a", "l">>],
       [type |-> "image", text |-> <<>>],
       [type |-> "text", text |-> <<"2">>] >>

Histories ==
    { <<>>,
      <<Turn("assistant", StrContent(TxtOk))>>,
      <<Turn("user", StrContent(TxtHi))>>,
      <<Turn("user", StrContent(TxtHiBob))>>,
      <<Turn("user", StrContent(TxtWhat))>>,
      <<Turn("user", StrContent(TxtHi)), Turn("assistant", StrContent(TxtOk)),
        Turn("user", StrContent(TxtHi))>>,
      <<Turn("user", StrContent(TxtBob1))>>,
      <<Turn("user", StrContent(TxtBob1)), Turn("assistant", StrContent(TxtOk))>>,
      <<Turn("user", PartsContent(PartsAl2)), Turn("assistant", StrContent(TxtOk)),
        Turn("user", StrContent(TxtHiBob))>>,
      <<Turn("user", PartsContent(PartsAl2)), Turn("assistant", StrContent(TxtOk)),
        Turn("user", StrContent(TxtWhat))>> }

\* what request.json() gives: no JSON at all, a JSON value that is no
\* object, an object without "messages", an object whose "messages" is a
\* string, an object whose "messages" is a list of turns
Body(kind, messages_type, messages) ==
    [kind |-> kind, messages_type |-> messages_type, messages |-> messages]

Bodies ==
    { Body("malformed", "missing", <<>>),
      Body("array", "missing", <<>>),
      Body("object", "missing", <<>>),
      Body("object", "str", <<>>) }
    \cup { Body("object", "list", h) : h \in Histories }

\* the index of the last user turn, 0 when there is none (lines 159-163)
LastUserIndex(messages) ==
    LET us == { i \in DOMAIN messages : messages[i].role = "user" }
    IN  IF us = {} THEN 0 ELSE CHOOSE i \in us : \A j \in us : j <= i

\* len(user_messages) == 1 (lines 171-172)
IsFirst(messages) ==
    Cardinality({ i \in DOMAIN messages : messages[i].role = "user" }) = 1

\* variant: the greeting test without is_first
RouteGreetingAnyTurn(messages) ==
    LET last == LastUserIndex(messages)
    IN  IF last = 0 THEN "NoUserTurn"
        ELSE LET user_query == _extract_user_query(messages[last])
             IN  IF _is_greeting(user_query)
                 THEN "FirstTurnGreeting"
                 ELSE IF _parse_username_and_count(user_query) = ValueError
                 THEN "ValueError"
                 ELSE IF _parse_username_and_count(user_query) = None
                 THEN "IntentNone"
                 ELSE "IntentDataQuery"

\* the branch chat() takes for a list of turns (lines 165-181)
Route(messages) ==
    LET last == LastUserIndex(messages)
    IN  IF last = 0 THEN "NoUserTurn"
        ELSE LET user_query == _extract_user_query(messages[last])
             IN  IF IsFirst(messages) /\ _is_greeting(user_query)
                 THEN "FirstTurnGreeting"
                 ELSE IF _parse_username_and_count(user_query) = ValueError
                 THEN "ValueError"
                 ELSE IF _parse_username_and_count(user_query) = None
                 THEN "IntentNone"
                 ELSE "IntentDataQuery"

\* _stream_simple: the turns handed to _openai_stream (lines 219-222)
\* variant: only the user turns are passed on
SimpleMessagesUser(messages) ==
    LET RECURSIVE Pick(_)
        Pick(ms) == IF ms = <<>> THEN <<>>
                    ELSE (IF Head(ms).role = "user" THEN <<FlatTurn(Head(ms))>> ELSE <<>>)
                           \o Pick(Tail(ms))
    IN  Pick(messages)

SimpleMessages(messages) == [i \in DOMAIN messages |-> FlatTurn(messages[i])]

\* the enriched turns handed to _openai_stream (lines 197-202)
EnrichedMessages(messages, summary_prompt) ==
    [i \in 1..(Len(messages) - 1) |-> FlatTurn(messages[i])]
        \o <<[role |-> "user", content |-> summary_prompt]>>

\* a response object: a JSONResponse, a StreamingResponse, or the server's
\* answer to an exception that leaves chat()
JsonError(message, status) ==
    [status |-> status, kind |-> "json", error |-> message,
     activity_log |-> None, messages |-> <<>>]
Streaming(header, messages) ==
    [status |-> 200, kind |-> "stream", error |-> "",
     activity_log |-> header, messages |-> messages]
ServerError ==
    [status |-> 500, kind |-> "unhandled", error |-> "Internal Server Error",
     activity_log |-> None, messages |-> <<>>]

(***************************************************************************)
(* sela_adapter.py: what the SDK gives back                                *)
(***************************************************************************)
\* what await client.state() can return
ClientStates == {"running", "stopped", "created", "stopping"}

\* one element of response.page.content: fields_json is the text of a JSON
\* object, the text of a JSON array, or no JSON text
ObjContent(content_type, fields) ==
    [content_type |-> content_type, json |-> "object", fields |-> fields]
ScTweet == ObjContent("tweet", [content |-> <<"g", "m">>, url |-> <<"u">>])
ScArray == [content_type |-> "tweet", json |-> "array", fields |-> <<>>]
ScBroken == [content_type |-> "", json |-> "invalid", fields |-> <<>>]
ScValues == {ScTweet, ScArray, ScBroken}

MaxContent == 2
MaxAgents == 1
MaxFragments == 1

RECURSIVE SeqsUpTo(_, _)
SeqsUpTo(S, n) ==
    IF n = 0 THEN {<<>>}
    ELSE LET shorter == SeqsUpTo(S, n - 1)
         IN  shorter \cup { Append(q, e) : q \in { t \in shorter : Len(t) = n - 1 }, e \in S }

PageContents == SeqsUpTo(ScValues, MaxContent)

\* lines 205-214: the item made of one element of the page
SelaContentItem(sc) ==
    LET fields == IF sc.json = "object" THEN sc.fields ELSE [raw |-> <<"<fields_json>">>]
    IN  [content_type |-> IF sc.content_type = "" THEN "tweet" ELSE sc.content_type,
         fields |-> fields,
         url |-> IF "url" \in DOMAIN fields THEN Some(fields["url"]) ELSE None]

SelaUserTweetsResult(username, items, authenticated, error) ==
    [username |-> username, items |-> items,
     authenticated |-> authenticated, error |-> error]

\* username.lstrip("@")
RECURSIVE LStripAt(_)
LStripAt(username) ==
    IF username # <<>> /\ Head(username) = "@" THEN LStripAt(Tail(username)) ELSE username

(***************************************************************************)
(* The state                                                               *)
(***************************************************************************)
\* the request coroutines the event loop serves
Requests == {1, 2}

VARIABLES
    pc,             \* where each request coroutine stands
    running,        \* the coroutine that holds the event loop, or None
    loc,            \* the local variables of each coroutine
    response,       \* what chat() returned for each request, or None
    stream,         \* the generator format_data_stream(...) of each response
    completion,     \* the turns each _openai_stream call sent, or None
    _client,        \* sela_adapter._client: None or a client object
    _init_lock,     \* sela_adapter._init_lock: None or its holder
    _last_error,    \* sela_adapter._last_error
    _activity_log,  \* sela_adapter._activity_log
    api_key,        \* whether SELA_API_KEY is set in the environment
    arrivals,       \* how many requests the server has received
    uuids,          \* how many uuid4 values _log has drawn
    clients,        \* how many SelaClient objects have been created
    appended,       \* history: the entries each request's own _log calls appended
    effects,        \* history: the branch and side effects of each request, in order
    gen,            \* a lone format_data_stream generator (specification SpecStream)
    hlog,           \* a lone activity log (specification SpecHeader)
    hjson,          \* the header built from hlog, or None
    parse,          \* a lone user text on its way through the parser (specification SpecParser)
    summary         \* a lone call of build_tweet_summary_prompt (specification SpecSummary)

vars == <<pc, running, loc, response, stream, completion, _client, _init_lock,
          _last_error, _activity_log, api_key, arrivals, uuids, clients, appended,
          effects, gen, hlog, hjson, parse, summary>>

adapterVars == <<_client, _init_lock, _last_error>>
envVars == <<api_key, arrivals, clients>>
logVars == <<_activity_log, uuids, appended>>
streamVars == <<stream, completion>>
otherSpecVars == <<gen, hlog, hjson, parse, summary>>

NoSummary ==
    [pc |-> "idle", username |-> <<>>, items |-> <<>>, error |-> None, count |-> 0,
     prompt |-> <<>>]

NoParse ==
    [pc |-> "idle", text |-> <<>>, first |-> TRUE, greeting |-> FALSE,
     parsed |-> None, branch |-> ""]

NoLocals ==
    [body |-> Body("malformed", "missing", <<>>), messages |-> <<>>,
     username |-> <<>>, count |-> 0, client |-> None, exc |-> "",
     tweets |-> None, summary_prompt |-> <<>>,
     activity_log |-> <<>>, activity_log_json |-> None]

Init ==
    /\ pc = [r \in Requests |-> "idle"]
    /\ running = None
    /\ loc = [r \in Requests |-> NoLocals]
    /\ response = [r \in Requests |-> None]
    /\ stream = [r \in Requests |-> NewStream]
    /\ completion = [r \in Requests |-> None]
    /\ _client = None
    /\ _init_lock = None
    /\ _last_error = None
    /\ _activity_log = <<>>
    /\ api_key \in BOOLEAN
    /\ arrivals = 0
    /\ uuids = 0
    /\ clients = 0
    /\ appended = [r \in Requests |-> <<>>]
    /\ effects = [r \in Requests |-> <<>>]
    /\ gen = NewStream
    /\ hlog = <<>>
    /\ hjson = None
    /\ parse = NoParse
    /\ summary = NoSummary

\* coroutine r holds the event loop and stands at label l
At(r, l) == running = Some(r) /\ pc[r] = l
\* coroutine r waits at label l for a call that the loop may now complete
Waits(r, l) == running = None /\ pc[r] = l

Goto(r, l) == pc' = [pc EXCEPT ![r] = l]
Effect(r, e) == effects' = [effects EXCEPT ![r] = Append(@, e)]
Effects2(r, e1, e2) == effects' = [effects EXCEPT ![r] = @ \o <<e1, e2>>]

\* _log(...) called by coroutine r
Logged(r, type_, platform, message, url, details) ==
    /\ _activity_log' = _log(_activity_log, uuids + 1, type_, platform, message, url, details)
    /\ uuids' = uuids + 1
    /\ appended' = [appended EXCEPT ![r] =
           Append(@, ActivityLogEntry(uuids + 1, type_, platform, message, url, details))]

(***************************************************************************)
(* chat_route.py: chat()                                                   *)
(***************************************************************************)
\* the request's connection is over: chat() has returned and the body, if
\* it is a stream, has ended
Finished(r) ==
    /\ pc[r] = "returned"
    /\ Val(response[r]).kind = "stream" => stream[r].pc \in {"raised", "returned"}

MaxArrivals == 2

\* lines 148-151: a request arrives, on fresh locals, and
\* body = await request.json() completes
ChatJson(r, b) ==
    /\ running = None
    /\ pc[r] = "idle" \/ Finished(r)
    /\ arrivals < MaxArrivals
    /\ arrivals' = arrivals + 1
    /\ stream' = [stream EXCEPT ![r] = NewStream]
    /\ completion' = [completion EXCEPT ![r] = None]
    /\ appended' = [appended EXCEPT ![r] = <<>>]
    /\ effects' = [effects EXCEPT ![r] = <<>>]
    /\ IF b.kind = "malformed"
       THEN /\ response' = [response EXCEPT ![r] = Some(JsonError("Invalid JSON body", 400))]
            /\ loc' = [loc EXCEPT ![r] = NoLocals]
            /\ Goto(r, "returned")
            /\ UNCHANGED running
       ELSE /\ loc' = [loc EXCEPT ![r] = [NoLocals EXCEPT !.body = b]]
            /\ response' = [response EXCEPT ![r] = None]
            /\ Goto(r, "messages")
            /\ running' = Some(r)
    /\ UNCHANGED <<adapterVars, _activity_log, uuids, api_key, clients, otherSpecVars>>

\* lines 153-155: messages = body.get("messages"); a body that is no dict
\* has no get, and the AttributeError leaves chat()
ChatMessages(r) ==
    /\ At(r, "messages")
    /\ IF loc[r].body.kind # "object"
       THEN /\ response' = [response EXCEPT ![r] = Some(ServerError)]
            /\ Goto(r, "returned")
            /\ running' = None
            /\ UNCHANGED loc
       ELSE IF loc[r].body.messages_type # "list"
       THEN /\ response' = [response EXCEPT ![r] =
                   Some(JsonError("Invalid request: messages array required", 400))]
            /\ Goto(r, "returned")
            /\ running' = None
            /\ UNCHANGED loc
       ELSE /\ loc' = [loc EXCEPT ![r].messages = loc[r].body.messages]
            /\ Goto(r, "route")
            /\ UNCHANGED <<running, response>>
    /\ UNCHANGED <<adapterVars, logVars, streamVars, envVars, effects, otherSpecVars>>

\* lines 157-183: find the last user turn and take a branch; the three
\* SimpleReply branches return _stream_simple(messages, agent_def); an
\* exception of the parser leaves chat()
ChatRoute(r) ==
    /\ At(r, "route")
    /\ LET messages == loc[r].messages
           branch   == Route(messages)
       IN  IF branch = "IntentDataQuery"
           THEN LET parsed == Val(_parse_username_and_count(
                                   _extract_user_query(messages[LastUserIndex(messages)])))
                IN  /\ loc' = [loc EXCEPT ![r].username = parsed[1], ![r].count = parsed[2]]
                    /\ Goto(r, "clear")
                    /\ Effect(r, branch)
                    /\ UNCHANGED <<running, response>>
           ELSE IF branch = "ValueError"
           THEN /\ response' = [response EXCEPT ![r] = Some(ServerError)]
                /\ Goto(r, "returned")
                /\ running' = None
                /\ UNCHANGED <<loc, effects>>
           ELSE /\ response' = [response EXCEPT ![r] =
                       Some(Streaming(None, SimpleMessages(messages)))]
                /\ Goto(r, "returned")
                /\ running' = None
                /\ Effects2(r, branch, "SimpleReply")
                /\ UNCHANGED loc
    /\ UNCHANGED <<adapterVars, logVars, streamVars, envVars, otherSpecVars>>

\* line 186: clear_activity_log()
ChatClear(r) ==
    /\ At(r, "clear")
    /\ _activity_log' = <<>>
    /\ Goto(r, "fetch")
    /\ Effect(r, "clear")
    /\ UNCHANGED <<running, loc, response, adapterVars, uuids, appended, streamVars,
                   envVars, otherSpecVars>>

\* variant: the log is read before the fetch, not after the synthesis
ChatSynthesizeNoRead(r) ==
    /\ At(r, "synthesize")
    /\ loc' = [loc EXCEPT ![r].summary_prompt =
           build_tweet_summary_prompt(loc[r].username, Val(loc[r].tweets), loc[r].count)]
    /\ Goto(r, "serialize")
    /\ Effect(r, "synthesize")
    /\ UNCHANGED <<running, response, adapterVars, logVars, streamVars, envVars,
                   otherSpecVars>>

\* line 188, second half: summary_prompt = build_tweet_summary_prompt(...)
ChatSynthesize(r) ==
    /\ At(r, "synthesize")
    /\ loc' = [loc EXCEPT ![r].summary_prompt =
           build_tweet_summary_prompt(loc[r].username, Val(loc[r].tweets), loc[r].count)]
    /\ Goto(r, "read_log")
    /\ Effect(r, "synthesize")
    /\ UNCHANGED <<running, response, adapterVars, logVars, streamVars, envVars,
                   otherSpecVars>>

\* line 191: activity_log = get_activity_log()
ChatReadLog(r) ==
    /\ At(r, "read_log")
    /\ loc' = [loc EXCEPT ![r].activity_log = get_activity_log(_activity_log)]
    /\ Goto(r, "serialize")
    /\ Effect(r, "read")
    /\ UNCHANGED <<running, response, adapterVars, logVars, streamVars, envVars,
                   otherSpecVars>>

\* lines 192-194: serialize, and keep the last entries when too long
ChatSerialize(r) ==
    /\ At(r, "serialize")
    /\ loc' = [loc EXCEPT ![r].activity_log_json = Some(ActivityLogHeader(loc[r].activity_log))]
    /\ Goto(r, "respond")
    /\ Effect(r, "serialize")
    /\ UNCHANGED <<running, response, adapterVars, logVars, streamVars, envVars,
                   otherSpecVars>>

\* lines 196-214: the enriched turns and the StreamingResponse
ChatRespond(r) ==
    /\ At(r, "respond")
    /\ response' = [response EXCEPT ![r] =
           Some(Streaming(loc[r].activity_log_json,
                          EnrichedMessages(loc[r].messages, loc[r].summary_prompt)))]
    /\ Goto(r, "returned")
    /\ running' = None
    /\ Effect(r, "EnrichedReply")
    /\ UNCHANGED <<loc, adapterVars, logVars, streamVars, envVars, otherSpecVars>>

(***************************************************************************)
(* sela_adapter.py: _ensure_client() and _initialize_client()              *)
(***************************************************************************)
\* the with-block of _ensure_client is left: the lock is released
Release == _init_lock' = None

\* lines 150-153: the handler of the restart attempt
RestartFailed(r, msg) ==
    /\ _last_error' = Some(msg)
    /\ Logged(r, "error", "system", <<"Failed to restart Sela client: ", msg>>, None, None)
    /\ _client' = None
    /\ Goto(r, "lock")
    /\ running' = Some(r)
    /\ UNCHANGED <<loc, _init_lock>>

\* lines 183-190 and 141-143: sela_get_user_tweets calls _ensure_client,
\* which asks a cached client for its state
FetchEnter(r) ==
    /\ At(r, "fetch")
    /\ loc' = [loc EXCEPT ![r].username = LStripAt(@)]
    /\ Effect(r, "fetch")
    /\ IF _client # None
       THEN Goto(r, "await_state") /\ running' = None
       ELSE Goto(r, "lock") /\ UNCHANGED running
    /\ UNCHANGED <<response, adapterVars, logVars, streamVars, envVars, otherSpecVars>>

\* lines 143-147: state() returned; `return _client` and `_client.start()`
\* read the module variable as it is now
StateReturn(r, state) ==
    /\ Waits(r, "await_state")
    /\ IF state = "running"
       THEN /\ loc' = [loc EXCEPT ![r].client = _client]
            /\ Goto(r, "browse")
            /\ running' = Some(r)
            /\ UNCHANGED <<adapterVars, logVars>>
       ELSE IF state \in {"stopped", "created"}
       THEN IF _client = None
            THEN RestartFailed(r, "'NoneType' object has no attribute 'start'")
            ELSE /\ Goto(r, "await_restart")
                 /\ UNCHANGED <<running, loc, adapterVars, logVars>>
       ELSE /\ Goto(r, "lock")
            /\ running' = Some(r)
            /\ UNCHANGED <<loc, adapterVars, logVars>>
    /\ UNCHANGED <<response, streamVars, envVars, effects, otherSpecVars>>

\* lines 143, 150-153: state() raised
StateRaise(r, msg) ==
    /\ Waits(r, "await_state")
    /\ RestartFailed(r, msg)
    /\ UNCHANGED <<response, streamVars, envVars, effects, otherSpecVars>>

\* lines 147-149: start() returned
RestartReturn(r) ==
    /\ Waits(r, "await_restart")
    /\ Logged(r, "info", "system", <<"Sela client restarted">>, None, None)
    /\ loc' = [loc EXCEPT ![r].client = _client]
    /\ Goto(r, "browse")
    /\ running' = Some(r)
    /\ UNCHANGED <<adapterVars, response, streamVars, envVars, effects, otherSpecVars>>

\* lines 147, 150-153: start() raised
RestartRaise(r, msg) ==
    /\ Waits(r, "await_restart")
    /\ RestartFailed(r, msg)
    /\ UNCHANGED <<response, streamVars, envVars, effects, otherSpecVars>>

\* line 155: async with _init_lock; a free lock with no waiter is taken at
\* once, otherwise the coroutine waits
LockAcquire(r) ==
    /\ At(r, "lock")
    /\ IF _init_lock = None /\ \A q \in Requests : pc[q] # "lock_wait"
       THEN /\ _init_lock' = Some(r)
            /\ Goto(r, "lock_check")
            /\ UNCHANGED running
       ELSE /\ Goto(r, "lock_wait")
            /\ running' = None
            /\ UNCHANGED _init_lock
    /\ UNCHANGED <<loc, response, _client, _last_error, logVars, streamVars, envVars,
                   effects, otherSpecVars>>

\* line 155: a waiter is woken with the lock
LockWake(r) ==
    /\ Waits(r, "lock_wait")
    /\ _init_lock = None
    /\ _init_lock' = Some(r)
    /\ Goto(r, "lock_check")
    /\ running' = Some(r)
    /\ UNCHANGED <<loc, response, _client, _last_error, logVars, streamVars, envVars,
                   effects, otherSpecVars>>

\* lines 157-159: the double check under the lock
LockCheck(r) ==
    /\ At(r, "lock_check")
    /\ IF _client # None
       THEN Goto(r, "await_state2") /\ running' = None
       ELSE Goto(r, "init") /\ UNCHANGED running
    /\ UNCHANGED <<loc, response, adapterVars, logVars, streamVars, envVars, effects,
                   otherSpecVars>>

\* lines 159-161, 164: state() returned under the lock
State2Return(r, state) ==
    /\ Waits(r, "await_state2")
    /\ running' = Some(r)
    /\ IF state = "running"
       THEN /\ loc' = [loc EXCEPT ![r].client = _client]
            /\ Release
            /\ Goto(r, "browse")
            /\ UNCHANGED <<_client, _last_error>>
       ELSE /\ Goto(r, "init")
            /\ UNCHANGED <<loc, adapterVars>>
    /\ UNCHANGED <<response, logVars, streamVars, envVars, effects, otherSpecVars>>

\* lines 159, 162-164: state() raised under the lock
State2Raise(r) ==
    /\ Waits(r, "await_state2")
    /\ running' = Some(r)
    /\ _client' = None
    /\ Goto(r, "init")
    /\ UNCHANGED <<loc, response, _init_lock, _last_error, logVars, streamVars, envVars, effects, otherSpecVars>>

\* lines 106-111: the API key is read before the try; without it the
\* RuntimeError leaves _initialize_client and the with-block
InitKey(r) ==
    /\ At(r, "init")
    /\ IF ~api_key
       THEN /\ loc' = [loc EXCEPT ![r].exc = "SELA_API_KEY environment variable is not set"]
            /\ Release
            /\ Goto(r, "fetch_except")
            /\ UNCHANGED running
       ELSE /\ Goto(r, "await_with_api_key")
            /\ running' = None
            /\ UNCHANGED <<loc, _init_lock>>
    /\ UNCHANGED <<response, _client, _last_error, logVars, streamVars, envVars,
                   effects, otherSpecVars>>

\* lines 111-112: with_api_key() returned a new client; start() is called
WithApiKeyReturn(r) ==
    /\ Waits(r, "await_with_api_key")
    /\ clients' = clients + 1
    /\ loc' = [loc EXCEPT ![r].client = Some(clients + 1)]
    /\ Goto(r, "await_start")
    /\ UNCHANGED <<running, response, adapterVars, logVars, streamVars, api_key, arrivals,
                   effects, otherSpecVars>>

\* lines 112-118: start() returned; discover_agents() is called
StartReturn(r) ==
    /\ Waits(r, "await_start")
    /\ Logged(r, "info", "system", <<"Sela client started, connected to P2P network">>,
              None, None)
    /\ Goto(r, "await_discover")
    /\ UNCHANGED <<running, loc, response, adapterVars, streamVars, envVars, effects,
                   otherSpecVars>>

\* lines 131-135: the handler of _initialize_client; the exception goes on
\* through the with-block to sela_get_user_tweets
InitFailed(r, msg) ==
    /\ _client' = None
    /\ _last_error' = Some(msg)
    /\ Logged(r, "error", "system", <<"Failed to initialize Sela: ", msg>>, None, None)
    /\ loc' = [loc EXCEPT ![r].exc = msg]
    /\ Release
    /\ Goto(r, "fetch_except")
    /\ running' = Some(r)

\* lines 115-125: discover_agents() returned n agents
DiscoverReturn(r, n) ==
    /\ Waits(r, "await_discover")
    /\ IF n = 0
       THEN InitFailed(r, "No agents with 'web' capability found on the network")
       ELSE /\ Logged(r, "info", "system",
                      <<"Discovered ">> \o IntStr(n) \o <<" agent(s)">>, None, None)
            /\ Goto(r, "await_connect")
            /\ UNCHANGED <<running, loc, adapterVars>>
    /\ UNCHANGED <<response, streamVars, envVars, effects, otherSpecVars>>

\* lines 125-130: connect_to_first_available() returned
ConnectReturn(r) ==
    /\ Waits(r, "await_connect")
    /\ Logged(r, "info", "system", <<"Connected to first available agent">>, None, None)
    /\ _last_error' = None
    /\ _client' = loc[r].client
    /\ Release
    /\ Goto(r, "browse")
    /\ running' = Some(r)
    /\ UNCHANGED <<loc, response, streamVars, envVars, effects, otherSpecVars>>

\* lines 111-125, 131-135: one of the four calls of _initialize_client raised
InitRaise(r, msg) ==
    /\ running = None
    /\ pc[r] \in {"await_with_api_key", "await_start", "await_discover", "await_connect"}
    /\ InitFailed(r, msg)
    /\ UNCHANGED <<response, streamVars, envVars, effects, otherSpecVars>>

(***************************************************************************)
(* sela_adapter.py: sela_get_user_tweets()                                 *)
(***************************************************************************)
\* lines 191-201: the browse entry is logged and client.browse() is called;
\* None has no browse
Browse(r) ==
    /\ At(r, "browse")
    /\ Logged(r, "browse", "twitter", <<"Fetching tweets for @">> \o loc[r].username,
              Some(search_url(loc[r].username)), None)
    /\ IF loc[r].client = None
       THEN /\ loc' = [loc EXCEPT ![r].exc = "'NoneType' object has no attribute 'browse'"]
            /\ Goto(r, "fetch_except")
            /\ UNCHANGED running
       ELSE /\ Goto(r, "await_browse")
            /\ running' = None
            /\ UNCHANGED loc
    /\ UNCHANGED <<response, adapterVars, streamVars, envVars, effects, otherSpecVars>>

\* variant: the items are returned without the cut to count
BrowseReturnUncut(r, content) ==
    /\ Waits(r, "await_browse")
    /\ running' = Some(r)
    /\ IF \E i \in DOMAIN content : content[i].json = "array"
       THEN /\ loc' = [loc EXCEPT ![r].exc = "'list' object has no attribute 'get'"]
            /\ Goto(r, "fetch_except")
            /\ UNCHANGED <<logVars, effects>>
       ELSE LET items == [i \in DOMAIN content |-> SelaContentItem(content[i])]
            IN  /\ Logged(r, "info", "twitter",
                          <<"Retrieved ">> \o IntStr(Len(items)) \o <<" tweets for @">>
                              \o loc[r].username,
                          Some(search_url(loc[r].username)),
                          Some(<<"Page type: ", "search">>))
                /\ loc' = [loc EXCEPT ![r].tweets =
                       Some(SelaUserTweetsResult(loc[r].username, items, TRUE, None))]
                /\ Goto(r, "synthesize")
                /\ Effect(r, "fetched")
    /\ UNCHANGED <<response, adapterVars, streamVars, envVars, otherSpecVars>>

\* lines 203-228: browse() returned a page; a fields_json that is JSON but
\* no object has no get
BrowseReturn(r, content) ==
    /\ Waits(r, "await_browse")
    /\ running' = Some(r)
    /\ IF \E i \in DOMAIN content : content[i].json = "array"
       THEN /\ loc' = [loc EXCEPT ![r].exc = "'list' object has no attribute 'get'"]
            /\ Goto(r, "fetch_except")
            /\ UNCHANGED <<logVars, effects>>
       ELSE LET items == [i \in DOMAIN content |-> SelaContentItem(content[i])]
            IN  /\ Logged(r, "info", "twitter",
                          <<"Retrieved ">> \o IntStr(Len(items)) \o <<" tweets for @">>
                              \o loc[r].username,
                          Some(search_url(loc[r].username)),
                          Some(<<"Page type: ", "search">>))
                /\ loc' = [loc EXCEPT ![r].tweets =
                       Some(SelaUserTweetsResult(loc[r].username,
                                                 Slice(items, 1, loc[r].count), TRUE, None))]
                /\ Goto(r, "synthesize")
                /\ Effect(r, "fetched")
    /\ UNCHANGED <<response, adapterVars, streamVars, envVars, otherSpecVars>>

\* line 193: browse() raised
BrowseRaise(r, msg) ==
    /\ Waits(r, "await_browse")
    /\ running' = Some(r)
    /\ loc' = [loc EXCEPT ![r].exc = msg]
    /\ Goto(r, "fetch_except")
    /\ UNCHANGED <<response, adapterVars, logVars, streamVars, envVars, effects,
                   otherSpecVars>>

\* lines 229-237: the handler of sela_get_user_tweets
FetchExcept(r) ==
    /\ At(r, "fetch_except")
    /\ LET error_msg == loc[r].exc
       IN  /\ Logged(r, "error", "twitter",
                     <<"Failed to fetch tweets for @">> \o loc[r].username
                         \o <<": ", error_msg>>,
                     Some(search_url(loc[r].username)), None)
           /\ loc' = [loc EXCEPT ![r].tweets =
                  Some(SelaUserTweetsResult(loc[r].username, <<>>, FALSE, Some(error_msg)))]
    /\ Goto(r, "synthesize")
    /\ Effect(r, "fetched")
    /\ UNCHANGED <<running, response, adapterVars, streamVars, envVars, otherSpecVars>>

(***************************************************************************)
(* The response body: the server iterates stream(), which re-yields the    *)
(* frames of format_data_stream(_openai_stream(messages, agent_def)).      *)
(* _openai_stream calls the completion API when it is first pulled and     *)
(* yields only non-empty deltas (lines 54-71).                             *)
(***************************************************************************)
MessageIds == {"msg-0f3a9c41"}
Fragments ==
    { <<>>, <<"H", "i">>, <<"\"", "\n">>, <<"\\", "t">>, <<"H", "e", "l">>, <<"l", "o">> }
\* the non-empty delta.content values the completion API streams
Deltas == { <<"H", "i">> }

Streams(r) ==
    /\ running = None
    /\ pc[r] = "returned"
    /\ response[r] # None
    /\ Val(response[r]).kind = "stream"

\* the completion API is called with the response's turns by the first pull
Pulled(r) ==
    IF completion[r] = None
    THEN /\ completion' = [completion EXCEPT ![r] = Some(Val(response[r]).messages)]
         /\ Effect(r, "completion")
    ELSE UNCHANGED <<completion, effects>>

BodyFrame ==
    UNCHANGED <<pc, running, loc, response, adapterVars, logVars, envVars, otherSpecVars>>

BodyStart(r, msg_id) ==
    /\ Streams(r)
    /\ stream[r].pc = "created"
    /\ stream' = [stream EXCEPT ![r] = FdsStart(@, msg_id)]
    /\ UNCHANGED <<completion, effects>>
    /\ BodyFrame

BodyChunk(r, text) ==
    /\ Streams(r)
    /\ stream[r].pc = "loop"
    /\ Len(stream[r].taken) < MaxFragments
    /\ stream' = [stream EXCEPT ![r] = FdsChunk(@, text)]
    /\ Pulled(r)
    /\ BodyFrame

BodyRaise(r) ==
    /\ Streams(r)
    /\ stream[r].pc = "loop"
    /\ stream' = [stream EXCEPT ![r] = FdsRaise(@)]
    /\ Pulled(r)
    /\ BodyFrame

BodyExhausted(r) ==
    /\ Streams(r)
    /\ stream[r].pc = "loop"
    /\ stream' = [stream EXCEPT ![r] = FdsExhausted(@)]
    /\ Pulled(r)
    /\ BodyFrame

BodyDone(r) ==
    /\ Streams(r)
    /\ stream[r].pc = "finishing"
    /\ stream' = [stream EXCEPT ![r] = FdsDone(@)]
    /\ UNCHANGED <<completion, effects>>
    /\ BodyFrame

BodyReturn(r) ==
    /\ Streams(r)
    /\ stream[r].pc = "done"
    /\ stream' = [stream EXCEPT ![r] = FdsReturn(@)]
    /\ UNCHANGED <<completion, effects>>
    /\ BodyFrame

\* a step of request r, with the inputs and the outcomes of the external
\* calls drawn from the given sets
StepOf(r, bodies, messages, contents) ==
    \/ \E b \in bodies : ChatJson(r, b)
    \/ ChatMessages(r)
    \/ ChatRoute(r)
    \/ ChatClear(r)
    \/ FetchEnter(r)
    \/ \E state \in ClientStates : StateReturn(r, state)
    \/ \E msg \in messages : StateRaise(r, msg)
    \/ RestartReturn(r)
    \/ \E msg \in messages : RestartRaise(r, msg)
    \/ LockAcquire(r)
    \/ LockCheck(r)
    \/ \E state \in ClientStates : State2Return(r, state)
    \/ State2Raise(r)
    \/ InitKey(r)
    \/ WithApiKeyReturn(r)
    \/ StartReturn(r)
    \/ \E n \in 0..MaxAgents : DiscoverReturn(r, n)
    \/ ConnectReturn(r)
    \/ \E msg \in messages : InitRaise(r, msg)
    \/ Browse(r)
    \/ \E content \in contents : BrowseReturn(r, content)
    \/ \E msg \in messages : BrowseRaise(r, msg)
    \/ FetchExcept(r)
    \/ ChatSynthesize(r)
    \/ ChatReadLog(r)
    \/ ChatSerialize(r)
    \/ ChatRespond(r)
    \/ \E msg_id \in MessageIds : BodyStart(r, msg_id)
    \/ \E text \in Deltas : BodyChunk(r, text)
    \/ BodyRaise(r)
    \/ BodyExhausted(r)
    \/ BodyDone(r)
    \/ BodyReturn(r)

\* one connection at a time, so that no coroutine ever waits for the lock:
\* every body of Bodies, every outcome of the external calls
Next == StepOf(1, Bodies, ExcMessages, PageContents)

Spec == Init /\ [][Next]_vars

\* overlapping data-query requests
ConcurrentBodies == { Body("object", "list", <<Turn("user", StrContent(TxtBob1))>>) }
ConcurrentMessages == {"boom"}
ConcurrentContents == { <<>>, <<ScTweet>> }

NextConcurrent ==
    \E r \in Requests :
        \/ StepOf(r, ConcurrentBodies, ConcurrentMessages, ConcurrentContents)
        \/ LockWake(r)

SpecConcurrent == Init /\ [][NextConcurrent]_vars

\* one connection at a time, with a user text that ends in a number longer
\* than int() accepts among the bodies
LongNumberBodies ==
    { Body("object", "list", <<Turn("user", StrContent(TxtBobDigits))>>),
      Body("object", "list", <<Turn("user", StrContent(TxtBob1))>>) }

NextLongNumber ==
    StepOf(1, LongNumberBodies, ConcurrentMessages, ConcurrentContents)

SpecLongNumber == Init /\ [][NextLongNumber]_vars

(***************************************************************************)
(* format_data_stream over an arbitrary fragment source                    *)
(***************************************************************************)
MaxChunks == 3

mainVars == <<pc, running, loc, response, stream, completion, _client, _init_lock,
              _last_error, _activity_log, api_key, arrivals, uuids, clients, appended,
              effects>>

StreamStart(msg_id) ==
    /\ gen.pc = "created"
    /\ gen' = FdsStart(gen, msg_id)
    /\ UNCHANGED <<mainVars, hlog, hjson, parse, summary>>

StreamChunk(text) ==
    /\ gen.pc = "loop"
    /\ Len(gen.taken) < MaxChunks
    /\ gen' = FdsChunk(gen, text)
    /\ UNCHANGED <<mainVars, hlog, hjson, parse, summary>>

StreamRaise ==
    /\ gen.pc = "loop"
    /\ gen' = FdsRaise(gen)
    /\ UNCHANGED <<mainVars, hlog, hjson, parse, summary>>

StreamExhausted ==
    /\ gen.pc = "loop"
    /\ gen' = FdsExhausted(gen)
    /\ UNCHANGED <<mainVars, hlog, hjson, parse, summary>>

StreamDone ==
    /\ gen.pc = "finishing"
    /\ gen' = FdsDone(gen)
    /\ UNCHANGED <<mainVars, hlog, hjson, parse, summary>>

StreamReturn ==
    /\ gen.pc = "done"
    /\ gen' = FdsReturn(gen)
    /\ UNCHANGED <<mainVars, hlog, hjson, parse, summary>>

NextStream ==
    \/ \E msg_id \in MessageIds : StreamStart(msg_id)
    \/ \E text \in Fragments : StreamChunk(text)
    \/ StreamRaise
    \/ StreamExhausted
    \/ StreamDone
    \/ StreamReturn

SpecStream == Init /\ [][NextStream]_vars

(***************************************************************************)
(* The x-activity-log header over an arbitrary log                         *)
(***************************************************************************)
MaxLog == 12

\* an entry as sela_get_user_tweets appends it
HeaderLog(msg) ==
    /\ hjson = None
    /\ Len(hlog) < MaxLog
    /\ hlog' = IF msg = ""
               THEN _log(hlog, Len(hlog) + 1, "info", "system",
                         <<"Sela client restarted">>, None, None)
               ELSE _log(hlog, Len(hlog) + 1, "error", "twitter",
                         <<"Failed to fetch tweets for @", "b", "o", "b", ": ", msg>>,
                         Some(search_url(<<"b", "o", "b">>)), None)
    /\ UNCHANGED <<mainVars, gen, hjson, parse, summary>>

\* chat(), lines 191-194
HeaderBuild ==
    /\ hjson = None
    /\ hjson' = Some(ActivityLogHeader(get_activity_log(hlog)))
    /\ UNCHANGED <<mainVars, gen, hlog, parse, summary>>

NextHeader ==
    \/ \E msg \in {"", LongMessage} : HeaderLog(msg)
    \/ HeaderBuild

SpecHeader == Init /\ [][NextHeader]_vars

(***************************************************************************)
(* The intent parser over an arbitrary user text                           *)
(***************************************************************************)
\* texts for every case of the two functions, and one that ends in a number
\* longer than int() accepts
ParserTexts ==
    { <<>>,
      <<"h", "i">>,
      <<"H", "i", "!">>,
      <<" ", "h", "e", "l", "l", "o", " ">>,
      <<"H", "E", "L", "L", "O">>,
      <<"h", "e", "y", ",">>,
      <<"s", "u", "p", ".">>,
      <<"y", "o">>,
      <<"y", "o", "y", "o">>,
      <<"h", "i", " ", "t", "h", "e", "r", "e">>,
      <<"h", "i", " ", "t", "h", "e", "r", "e", "!">>,
      <<"h", "i", " ", "t", "h", "e", "r", "e", ",">>,
      <<"h", "i", " ", "t", "h", "e", "r", "e", ".">>,
      <<"h", "i", " ", "t", "h", "e", "r", "e", " ", "b", "o", "b">>,
      <<"g", "o", "o", "d", " ", "m", "o", "r", "n", "i", "n", "g">>,
      <<"g", "o", "o", "d", " ", "m", "o", "r", "n", "i", "n", "g", " ", "a", "l", "l", ",">>,
      <<"h", "i", ",", " ", "@", "b", "o", "b">>,
      <<"h", "i", "!", " ", "@", "b", "o", "b", " ", "5">>,
      <<"h", "i", ".", "b", "o", "b">>,
      <<"h", "i", " ", "b", "o", "b">>,
      <<"h", "e", "l", "l", "o", " ", "1", "2">>,
      <<"h", "i", " ", "5">>,
      <<"h", "i", "t", "h", "e", "r", "e">>,
      <<"h", "o", "w", "d", "y", " ", "f", "r", "i", "e", "n", "d", "!", "!">>,
      <<"g", "r", "e", "e", "t", "i", "n", "g", "s">>,
      <<"h", "e", "y", " ", "b", "u", "d", "d", "y">>,
      <<"@", "b", "o", "b">>,
      <<"@", "b", "o", "b", " ", "1">>,
      <<"@", "b", "o", "b", " ", "1", "0", "0">>,
      <<"@", "b", "o", "b", " ", "4", "5", " ", "t", "w", "e", "e", "t", "s">>,
      <<"@", "b", "o", "b", " ", "5", "t", "w", "e", "e", "t", "s">>,
      <<"@", "b", "o", "b", " ", "1", "2", "p", "o", "s", "t", "s", "3">>,
      <<"@", "b", "o", "b", " ", "5", " ", "P", "o", "s", "t", "s">>,
      <<"b", "o", "b">>,
      <<"b", "o", "b", " ", "4", "5">>,
      <<"b", "o", "b", " ", "0">>,
      <<"b", "o", "b", " ", " ", "7">>,
      <<"b", "o", "b", " ", "7", " ", "8">>,
      <<"b", "o", "b", " ", "1", "0", "0">>,
      <<"@", "x", " ", "0", "0", "7">>,
      <<"@", "x", " ", "0">>,
      <<"@", "x", " ", "0", "0">>,
      <<"c", "h", "e", "c", "k", " ", "@", "a", "l", "i", "c", "e", "_", "9", "9", " ", "l", "a", "s", "t", " ", "5", " ", "t", "w", "e", "e", "t", "s">>,
      <<"@", "a", "b", "c", "d", "e", "f", "g", "h", "i", "j", "k", "l", "m", "n", "o", "p", "q", "r", "s", "t", "u", "v", "w", "x", "y", "z", " ", "3">>,
      <<"a", "b", "c", "d", "e", "f", "g", "h", "i", "j", "k", "l", "m", "n", "o", "p">>,
      <<"a", "b", "c", "d", "e", "f", "g", "h", "i", "j", "k", "l", "m", "n", "o">>,
      <<"1", "2">>,
      <<"1", "2", "3">>,
      <<"@", "9", "9", " ", "5">>,
      <<"@", "b", "o", "b", "9", "9", " ", "5">>,
      <<"@", " ", "b", "o", "b">>,
      <<"a", "@", "b">>,
      <<"j", "u", "s", "t", " ", "c", "h", "a", "t", "t", "i", "n", "g", " ", "a", "b", "o", "u", "t", " ", "l", "i", "f", "e">>,
      <<"@", "b", "o", "b", "!">>,
      <<"b", "o", "b", "!">>,
      <<"x", " ", "3", "1">>,
      <<"x", " ", "0", "0", "0">>,
      <<"@", "x", " ", "3", "x", " ", "4">>,
      <<"@", "x", " ", "1", "2", "3", "4">>,
      <<"l", "a", "s", "t", " ", "5">>,
      <<"@", "x", " ", "l", "a", "s", "t", " ", "7">>,
      <<"@", "x", " ", "l", "a", "s", "t", " ", "1", "0", "0">>,
      <<"@", "x", " ", "4", " ", "5">>,
      <<"@", "x", "\t", "3">>,
      <<"@", "@">>,
      <<"@">> }
    \cup {TxtBobDigits}

\* the history whose last user turn carries the text: that turn alone, or
\* that turn after an earlier exchange
HistoryOf(text, first) ==
    IF first
    THEN <<Turn("user", StrContent(text))>>
    ELSE <<Turn("user", StrContent(TxtWhat)), Turn("assistant", StrContent(TxtOk)),
           Turn("user", StrContent(text))>>

ParseInput(text, first) ==
    /\ parse.pc = "idle"
    /\ parse' = [NoParse EXCEPT !.pc = "input", !.text = text, !.first = first]
    /\ UNCHANGED <<mainVars, gen, hlog, hjson, summary>>

ParseGreeting ==
    /\ parse.pc = "input"
    /\ parse' = [parse EXCEPT !.pc = "greeted", !.greeting = _is_greeting(parse.text)]
    /\ UNCHANGED <<mainVars, gen, hlog, hjson, summary>>

ParseQuery ==
    /\ parse.pc = "greeted"
    /\ parse' = [parse EXCEPT !.pc = "parsed",
                               !.parsed = _parse_username_and_count(parse.text)]
    /\ UNCHANGED <<mainVars, gen, hlog, hjson, summary>>

ParseRoute ==
    /\ parse.pc = "parsed"
    /\ parse' = [parse EXCEPT !.pc = "routed",
                               !.branch = Route(HistoryOf(parse.text, parse.first))]
    /\ UNCHANGED <<mainVars, gen, hlog, hjson, summary>>

NextParser ==
    \/ \E text \in ParserTexts : \E first \in BOOLEAN : ParseInput(text, first)
    \/ ParseGreeting
    \/ ParseQuery
    \/ ParseRoute

SpecParser == Init /\ [][NextParser]_vars

(***************************************************************************)
(* build_tweet_summary_prompt over an arbitrary result                     *)
(***************************************************************************)
MaxItems == 3

\* items as sela_get_user_tweets builds them: a tweet with its content, a
\* tweet with a text, counters and marks, a page element kept raw
SummaryItems ==
    { SelaContentItem(ScTweet),
      SelaContentItem(ObjContent("tweet", [text |-> <<"y", "o">>, likes |-> <<"3">>,
                                           timestamp |-> <<"t">>, author |-> <<"a", "l">>,
                                           is_reply |-> <<"1">>])),
      SelaContentItem(ScArray) }

TenItems == [i \in 1..10 |-> SelaContentItem(ScTweet)]

SummaryInput(items, error, count) ==
    /\ summary.pc = "idle"
    /\ summary' = [NoSummary EXCEPT !.pc = "called", !.username = <<"b", "o", "b">>,
                                    !.items = items, !.error = error, !.count = count]
    /\ UNCHANGED <<mainVars, gen, hlog, hjson, parse>>

SummaryBuild ==
    /\ summary.pc = "called"
    /\ summary' = [summary EXCEPT
                      !.pc = "returned",
                      !.prompt = build_tweet_summary_prompt(
                                     summary.username,
                                     SelaUserTweetsResult(summary.username, summary.items,
                                                          TRUE, summary.error),
                                     summary.count)]
    /\ UNCHANGED <<mainVars, gen, hlog, hjson, parse>>

NextSummary ==
    \/ \E items \in SeqsUpTo(SummaryItems, MaxItems) \cup {TenItems} :
          \E error \in {None, Some(""), Some("boom")} :
             \E count \in {1, 2, 3, 10, 30} : SummaryInput(items, error, count)
    \/ SummaryBuild

SpecSummary == Init /\ [][NextSummary]_vars

(***************************************************************************)
(* Properties                                                              *)
(***************************************************************************)
\* the non-empty fragments of a sequence, in order
RECURSIVE NonEmpty(_)
NonEmpty(ts) ==
    IF ts = <<>> THEN <<>>
    ELSE (IF Head(ts) # <<>> THEN <<Head(ts)>> ELSE <<>>) \o NonEmpty(Tail(ts))

\* the TextDelta frames of the non-empty fragments, in order
DeltasOf(ts) == [i \in DOMAIN NonEmpty(ts) |-> _encode_text_delta(NonEmpty(ts)[i])]

IsStart(f) == \E id \in MessageIds : f = _encode_start(id)

\* Start, then the TextDelta frames of the fragments taken
StartAndDeltas(frames, taken) ==
    /\ Len(frames) = 1 + Len(DeltasOf(taken))
    /\ IsStart(frames[1])
    /\ SubSeq(frames, 2, Len(frames)) = DeltasOf(taken)

\* Start, the TextDelta frames, StepFinish, Done
CompleteResponse(frames, taken) ==
    /\ Len(frames) = 3 + Len(DeltasOf(taken))
    /\ StartAndDeltas(SubSeq(frames, 1, Len(frames) - 2), taken)
    /\ frames[Len(frames) - 1] = _encode_step_finish
    /\ frames[Len(frames)] = _encode_done

IsPrefix(s, t) == Len(s) <= Len(t) /\ SubSeq(t, 1, Len(s)) = s

\* C1, as stated: every response that format_data_stream produced, however
\* it ended, is one Start, the TextDelta frames in order, one StepFinish and
\* one Done.
C1_EveryResponseComplete ==
    gen.pc \in {"returned", "raised"} => CompleteResponse(gen.frames, gen.taken)

\* C1, amended: a response whose fragment source ends without raising is one
\* Start, the TextDelta frames in the order of their fragments, one
\* StepFinish and one Done, and nothing after Done; at every moment the frames
\* emitted so far are the beginning of that sequence, none reordered or
\* dropped; a response whose source raises ends after Start and the TextDelta
\* frames, without StepFinish and Done.
C1_FramesInOrder ==
    /\ gen.pc = "created" => gen.frames = <<>>
    /\ gen.pc \in {"loop", "raised"} => StartAndDeltas(gen.frames, gen.taken)
    /\ gen.pc = "finishing" =>
          /\ gen.frames # <<>>
          /\ StartAndDeltas(SubSeq(gen.frames, 1, Len(gen.frames) - 1), gen.taken)
          /\ gen.frames[Len(gen.frames)] = _encode_step_finish
    /\ gen.pc \in {"done", "returned"} => CompleteResponse(gen.frames, gen.taken)
    /\ gen.source = "exhausted" /\ gen.pc = "returned" =>
          CompleteResponse(gen.frames, gen.taken)

C1_Witness ==
    /\ gen.pc = "returned"
    /\ Len(NonEmpty(gen.taken)) >= 2
    /\ Len(gen.taken) > Len(NonEmpty(gen.taken))

\* a frame is one complete line: it ends with its only newline
CompleteLine(f) ==
    /\ f # <<>>
    /\ f[Len(f)] = "\n"
    /\ \A i \in 1..(Len(f) - 1) : f[i] # "\n"

\* C4: when the fragment source raises after k fragments the generator ends
\* with that failure instead of finishing the response, the frames emitted
\* are Start and the TextDelta frames of the non-empty fragments among the k,
\* in order, every emitted frame is a complete newline-terminated line, and
\* no step changes a frame already emitted.
C4_RaisePropagates ==
    /\ [](/\ gen.source = "raised" =>
               /\ gen.pc = "raised"
               /\ StartAndDeltas(gen.frames, gen.taken)
          /\ \A i \in DOMAIN gen.frames : CompleteLine(gen.frames[i]))
    /\ [][IsPrefix(gen.frames, gen.frames')]_vars

C4_Witness ==
    /\ gen.pc = "raised"
    /\ gen.source = "raised"
    /\ Len(gen.taken) = 3
    /\ <<>> \in Range(gen.taken)
    /\ <<"\"", "\n">> \in Range(gen.taken)
    /\ Len(gen.frames) = 3

\* C10: the header deserializes to the last 10 entries of the log, in their
\* order, when the JSON of the whole log is longer than 7000, and to the
\* whole log otherwise (a log of fewer than 10 entries has all its entries
\* among its last 10).
C10_HeaderIsTailOrWhole ==
    hjson # None =>
        JsonLoads(Val(hjson)) =
            IF JsonDumps(get_activity_log(hlog)).len > 7000
            THEN IF Len(hlog) > 10
                 THEN [i \in 1..10 |-> get_activity_log(hlog)[Len(hlog) - 10 + i]]
                 ELSE get_activity_log(hlog)
            ELSE get_activity_log(hlog)

C10_Witness ==
    /\ hjson # None
    /\ Len(hlog) > 10
    /\ JsonDumps(get_activity_log(hlog)).len > 7000
    /\ Len(JsonLoads(Val(hjson))) = 10
    /\ JsonLoads(Val(hjson))[1].id = Len(hlog) - 9

\* chat() has returned for request r
Returned(r) == pc[r] = "returned" /\ response[r] # None

\* the response of request r is the enriched one
Enriched(r) == Returned(r) /\ "EnrichedReply" \in Range(effects[r])

\* C2, as stated: for every history that reaches the enriched branch, wherever
\* its last user turn sits, the turns passed to the completion source do not
\* contain the raw text of that turn: the synthesized prompt stands in its
\* place and every other turn is passed with its role and flattened text.
C2_RawTextNeverResent ==
    \A r \in Requests :
        Enriched(r) /\ completion[r] # None =>
            LET messages == loc[r].messages
                last     == LastUserIndex(messages)
                raw      == _extract_user_query(messages[last])
                sent     == Val(completion[r])
            IN  /\ \A i \in DOMAIN sent : sent[i].content # raw
                /\ Len(sent) = Len(messages)
                /\ \A i \in DOMAIN messages :
                      sent[i] = IF i = last
                                THEN [role |-> "user", content |-> loc[r].summary_prompt]
                                ELSE FlatTurn(messages[i])

\* C3, as stated: with two data-query requests in flight together, the
\* x-activity-log header of each response holds exactly the entries appended
\* while that request was served: none of the other's, none of its own lost.
C3_LogScopedPerRequest ==
    \A r \in Requests :
        Enriched(r) =>
            JsonLoads(Val(Val(response[r]).activity_log))
                = JsonLoads(ActivityLogHeader(get_activity_log(appended[r])))

UserTurns(messages) == { i \in DOMAIN messages : messages[i].role = "user" }

\* the branch the stated order of tests gives
BranchInOrder(messages) ==
    IF UserTurns(messages) = {} THEN "NoUserTurn"
    ELSE LET text == _extract_user_query(messages[
                         CHOOSE i \in UserTurns(messages) : \A j \in UserTurns(messages) : j <= i])
         IN  IF Cardinality(UserTurns(messages)) = 1 /\ _is_greeting(text)
             THEN "FirstTurnGreeting"
             ELSE IF _parse_username_and_count(text) = None
             THEN "IntentNone"
             ELSE "IntentDataQuery"

EnrichedOrder ==
    <<"IntentDataQuery", "clear", "fetch", "fetched", "synthesize", "read",
      "serialize", "EnrichedReply", "completion">>

\* C5: a request with a valid body takes exactly one branch, the one the
\* order of tests gives: no user turn, else a single user turn that is a
\* greeting, else no data query (each then SimpleReply), else fetch,
\* synthesize and EnrichedReply; and every branch ends in a streaming
\* response whose body begins with the Start frame.
C5_OneBranchInOrder ==
    \A r \in Requests :
        /\ effects[r] # <<>> =>
              /\ effects[r][1] = BranchInOrder(loc[r].messages)
              /\ IF effects[r][1] = "IntentDataQuery"
                 THEN IsPrefix(effects[r], EnrichedOrder)
                 ELSE IsPrefix(effects[r], <<effects[r][1], "SimpleReply", "completion">>)
        /\ Returned(r) /\ loc[r].body.kind = "object" /\ loc[r].body.messages_type = "list" =>
              /\ Len(effects[r]) >= 2
              /\ Val(response[r]).kind = "stream"
              /\ Val(response[r]).status = 200
              /\ (effects[r][1] = "IntentDataQuery") = (Val(response[r]).activity_log # None)
              /\ stream[r].frames # <<>> =>
                    /\ IsStart(stream[r].frames[1])
                    /\ \A i \in DOMAIN stream[r].frames : CompleteLine(stream[r].frames[i])

C5_Witness ==
    \E r \in Requests :
        /\ Enriched(r)
        /\ Cardinality(UserTurns(loc[r].messages)) > 1
        /\ _is_greeting(_extract_user_query(loc[r].messages[LastUserIndex(loc[r].messages)]))
        /\ stream[r].pc = "returned"

\* C6: in the enriched branch the side effects happen each once and in this
\* order: clear, the fetch from start to result, synthesize, read the log,
\* serialize, and only after the response is built the first pull from the
\* completion source; and between reading the log and building the response
\* no step of any request changes the log.
C6_EnrichedOrder ==
    /\ [](\A r \in Requests :
            effects[r] # <<>> /\ effects[r][1] = "IntentDataQuery" =>
                /\ IsPrefix(effects[r], EnrichedOrder)
                /\ (pc[r] = "serialize") = (effects[r][Len(effects[r])] = "read")
                /\ (pc[r] = "respond") = (effects[r][Len(effects[r])] = "serialize")
                /\ completion[r] # None => Enriched(r))
    /\ [][\A r \in Requests :
            pc[r] \in {"serialize", "respond"} => _activity_log' = _activity_log]_vars

C6_Witness ==
    \E r, q \in Requests :
        /\ r # q
        /\ effects[r] = EnrichedOrder
        /\ appended[q] # <<>>
        /\ pc[q] \notin {"idle", "returned"}

\* the call of sela_get_user_tweets by request r has returned
FetchReturned(r) == loc[r].tweets # None

InitFailedIn(r) ==
    \E i \in DOMAIN appended[r] : appended[r][i].message[1] = "Failed to initialize Sela: "
RestartFailedIn(r) ==
    \E i \in DOMAIN appended[r] : appended[r][i].message[1] = "Failed to restart Sela client: "
RetrievedIn(r) ==
    \E i \in DOMAIN appended[r] : appended[r][i].message[1] = "Retrieved "
RawItemIn(r) ==
    \E i \in DOMAIN Val(loc[r].tweets).items : "raw" \in DOMAIN Val(loc[r].tweets).items[i].fields

\* sela_get_user_tweets never raises: the request that called it goes on to
\* the synthesis and chat() returns the streaming response
FetchNeverRaises(r) ==
    /\ "fetched" \in Range(effects[r]) => FetchReturned(r)
    /\ Returned(r) /\ "fetch" \in Range(effects[r]) =>
          /\ FetchReturned(r)
          /\ Val(response[r]).kind = "stream"

FetchFailedIn(r) ==
    \E i \in DOMAIN appended[r] : appended[r][i].message[1] = "Failed to fetch tweets for @"

\* C8, as stated: whenever sela_get_user_tweets takes its exception path, for
\* any exception message, the prompt sent to the completion source is the
\* error prompt naming the username and the error string, never the
\* no-recent-tweets prompt or an item list.
C8_FailureFoldedIntoPrompt ==
    \A r \in Requests :
        Enriched(r) /\ FetchFailedIn(r) /\ completion[r] # None =>
            LET sent   == Val(completion[r])
                prompt == sent[Len(sent)].content
            IN  /\ prompt[1] = ErrorPromptHead
                /\ SubSeq(prompt, 2, 1 + Len(loc[r].username)) = loc[r].username
                /\ Val(Val(loc[r].tweets).error) \in Range(prompt)

\* C9, as stated: a body that is not valid JSON, or whose messages field is
\* missing or invalid, is answered with a JSON error body and status 400,
\* without streaming, without a call of the completion source or of the
\* fetch adapter, and with the activity log as it was.
C9_InvalidBodyIs400 ==
    \A r \in Requests :
        Returned(r) /\ ~(loc[r].body.kind = "object" /\ loc[r].body.messages_type = "list") =>
            /\ Val(response[r]).kind = "json"
            /\ Val(response[r]).status = 400
            /\ Val(response[r]).error \in
                  {"Invalid JSON body", "Invalid request: messages array required"}
            /\ stream[r] = NewStream
            /\ completion[r] = None
            /\ effects[r] = <<>>
            /\ appended[r] = <<>>

\* C11, as stated: in every enriched response, whatever the log holds, the
\* x-activity-log header value is at most 7000 bytes (json.dumps writes ASCII
\* only, so its bytes are its characters).
C11_HeaderAtMost7000 ==
    \A r \in Requests :
        Enriched(r) => Val(Val(response[r]).activity_log).len <= 7000

\* a JSON string body read back: an escape gives its character, a bare
\* quote, backslash or control character is no JSON
RECURSIVE JsonUnescape(_)
JsonUnescape(s) ==
    IF s = <<>> THEN Some(<<>>)
    ELSE IF Head(s) = "\\"
    THEN IF Len(s) < 2 \/ s[2] \notin {"\"", "\\", "n", "t"} THEN None
         ELSE LET c    == CASE s[2] = "n" -> "\n"
                            [] s[2] = "t" -> "\t"
                            [] OTHER -> s[2]
                  rest == JsonUnescape(SubSeq(s, 3, Len(s)))
              IN  IF rest = None THEN None ELSE Some(<<c>> \o Val(rest))
    ELSE IF Head(s) \in {"\"", "\n", "\t"} THEN None
    ELSE LET rest == JsonUnescape(Tail(s))
         IN  IF rest = None THEN None ELSE Some(<<Head(s)>> \o Val(rest))

\* the text a TextDelta frame carries: the JSON string between "0:" and the
\* newline, decoded; None when the line is no such frame
DeltaText(f) ==
    IF Len(f) < 5 \/ f[1] # "0" \/ f[2] # ":" \/ f[3] # "\"" \/ f[Len(f) - 1] # "\""
          \/ f[Len(f)] # "\n"
    THEN None
    ELSE JsonUnescape(SubSeq(f, 4, Len(f) - 2))

\* the frames of type 0, in order
RECURSIVE TextDeltas(_)
TextDeltas(frames) ==
    IF frames = <<>> THEN <<>>
    ELSE (IF Head(frames)[1] = "0" THEN <<Head(frames)>> ELSE <<>>) \o TextDeltas(Tail(frames))

\* C12: for every fragment sequence the TextDelta frames emitted are one per
\* non-empty fragment taken, in order, none for an empty fragment; the
\* payload of the i-th, JSON-decoded, is the i-th non-empty fragment, quotes,
\* backslashes and newlines included; and the source is consumed once, in
\* order: each step takes at most the next fragment, and none after the
\* source has ended.
C12_DeltaRoundTrip ==
    /\ [](/\ Len(TextDeltas(gen.frames)) = Len(NonEmpty(gen.taken))
          /\ \A i \in DOMAIN TextDeltas(gen.frames) :
                DeltaText(TextDeltas(gen.frames)[i]) = Some(NonEmpty(gen.taken)[i]))
    /\ [][/\ \/ gen.taken' = gen.taken
             \/ /\ gen.source = "open"
                /\ Len(gen.taken') = Len(gen.taken) + 1
                /\ SubSeq(gen.taken', 1, Len(gen.taken)) = gen.taken
          /\ gen.source # "open" => gen.source' = gen.source]_vars

C12_Witness ==
    /\ gen.pc = "returned"
    /\ gen.taken = << <<"\"", "\n">>, <<>>, <<"\\", "t">> >>
    /\ Len(TextDeltas(gen.frames)) = 2

HelLo == << <<"H", "e", "l">>, <<"l", "o">>, <<>> >>

\* C13, as stated: for the fragments ["Hel", "lo", ""] the encoder produces
\* exactly 4 lines: Start, the two TextDelta frames, StepFinish, Done.
C13_HelLoFourLines ==
    gen.pc = "returned" /\ gen.taken = HelLo =>
        /\ Len(gen.frames) = 4
        /\ CompleteResponse(gen.frames, gen.taken)

\* C13, amended: for the fragments ["Hel", "lo", ""] the encoder produces
\* exactly 5 lines: Start, 0:"Hel", 0:"lo" (nothing for the empty fragment),
\* StepFinish, Done, in that order.
C13_HelLoFiveLines ==
    gen.pc = "returned" /\ gen.taken = HelLo =>
        /\ Len(gen.frames) = 5
        /\ gen.frames[1][1] = "f"
        /\ gen.frames[2] = <<"0", ":", "\"", "H", "e", "l", "\"", "\n">>
        /\ gen.frames[3] = <<"0", ":", "\"", "l", "o", "\"", "\n">>
        /\ gen.frames[4][1] = "e"
        /\ gen.frames[5][1] = "d"
        /\ \A i \in 1..5 : CompleteLine(gen.frames[i])

C13_Witness == gen.pc = "returned" /\ gen.taken = HelLo

(***************************************************************************)
(* The intent parser                                                       *)
(***************************************************************************)
GreetingWords ==
    { <<"h", "i">>, <<"h", "e", "l", "l", "o">>, <<"h", "e", "y">>, <<"s", "u", "p">>,
      <<"y", "o">>, <<"h", "o", "w", "d", "y">>,
      <<"g", "r", "e", "e", "t", "i", "n", "g", "s">>,
      <<"g", "o", "o", "d", " ", "m", "o", "r", "n", "i", "n", "g">>,
      <<"g", "o", "o", "d", " ", "a", "f", "t", "e", "r", "n", "o", "o", "n">>,
      <<"g", "o", "o", "d", " ", "e", "v", "e", "n", "i", "n", "g">> }

AddressTerms ==
    { <<"t", "h", "e", "r", "e">>, <<"b", "o", "t">>, <<"a", "g", "e", "n", "t">>,
      <<"b", "u", "d", "d", "y">>, <<"f", "r", "i", "e", "n", "d">>,
      <<"e", "v", "e", "r", "y", "o", "n", "e">>, <<"a", "l", "l">> }

\* a greeting word, or a greeting word, a space and an address term
PlainForms == GreetingWords \cup { g \o <<" ">> \o f : g \in GreetingWords, f \in AddressTerms }

\* a greeting word followed by one of ! , . or a greeting word, a space, an
\* address term and one of ! ,
PunctuatedForms ==
    { g \o <<c>> : g \in GreetingWords, c \in {"!", ",", "."} }
    \cup { g \o <<" ">> \o f \o <<c>> : g \in GreetingWords, f \in AddressTerms, c \in {"!", ","} }

\* the utterance without the white space around it, in lower case
Utterance(text) ==
    LET ink   == { i \in 1..Len(text) : text[i] \notin {" ", "\t", "\n"} }
        a     == CHOOSE i \in ink : (i - 1) \notin ink /\ \A j \in 1..(i - 1) : j \notin ink
        b     == CHOOSE i \in ink : (i + 1) \notin ink /\ \A j \in (i + 1)..Len(text) : j \notin ink
        low(c) == IF \E k \in 1..26 : UpperChars[k] = c
                  THEN LowerChars[CHOOSE k \in 1..26 : UpperChars[k] = c]
                  ELSE c
    IN  IF ink = {} THEN <<>> ELSE [k \in 1..(b - a + 1) |-> low(text[a + k - 1])]

\* C14, as stated: _is_greeting is true exactly when the trimmed, lower-cased
\* utterance IS a greeting word, a greeting word followed by one of ! , . or
\* a greeting word, a space and an address term optionally followed by ! or
\* , ; and the greeting overrides routing only on the first user turn.
C14_GreetingExactMatch ==
    /\ parse.pc \in {"greeted", "parsed", "routed"} =>
          parse.greeting = (Utterance(parse.text) \in PlainForms \cup PunctuatedForms)
    /\ parse.pc = "routed" =>
          (parse.branch = "FirstTurnGreeting") = (parse.first /\ parse.greeting)

\* C14, amended: _is_greeting is true exactly when the trimmed, lower-cased
\* utterance is a greeting word or a greeting word, a space and an address
\* term, or BEGINS with one of the punctuated forms (whatever follows the
\* punctuation mark); and the request is answered as a first-turn greeting
\* exactly when the history has one user turn and its text is a greeting.
C14_GreetingByPrefix ==
    /\ parse.pc \in {"greeted", "parsed", "routed"} =>
          parse.greeting =
             (\/ Utterance(parse.text) \in PlainForms
              \/ \E p \in PunctuatedForms : IsPrefix(p, Utterance(parse.text)))
    /\ parse.pc = "routed" =>
          (parse.branch = "FirstTurnGreeting") = (parse.first /\ parse.greeting)

C14_Witness ==
    /\ parse.pc = "routed"
    /\ parse.text = <<"h", "i", "!", " ", "@", "b", "o", "b", " ", "5">>
    /\ parse.greeting
    /\ parse.first
    /\ parse.branch = "FirstTurnGreeting"

\* the words of a text: its maximal runs of letters, digits and underscores,
\* each as <<first position, last position>>
Words(s) ==
    { <<a, b>> \in (1..Len(s)) \X (1..Len(s)) :
         /\ a <= b
         /\ \A i \in a..b : IsWordChar(s[i])
         /\ a = 1 \/ ~IsWordChar(s[a - 1])
         /\ b = Len(s) \/ ~IsWordChar(s[b + 1]) }

\* the maximal runs of digits of a text
Numbers(s) ==
    { <<a, b>> \in (1..Len(s)) \X (1..Len(s)) :
         /\ a <= b
         /\ \A i \in a..b : IsDigit(s[i])
         /\ a = 1 \/ ~IsDigit(s[a - 1])
         /\ b = Len(s) \/ ~IsDigit(s[b + 1]) }

\* the number of digits, 1 or 2, of a word that is one or two digits, alone
\* or directly followed by tweet, tweets, post or posts; 0 for any other word
CountDigits(s, w) ==
    LET word == [k \in 1..(w[2] - w[1] + 1) |-> s[w[1] + k - 1]]
        ds   == { n \in {1, 2} :
                    /\ n <= Len(word)
                    /\ \A k \in 1..n : IsDigit(word[k])
                    /\ Utterance(SubSeq(word, n + 1, Len(word))) \in CountWords }
    IN  IF ds = {} THEN 0 ELSE CHOOSE n \in ds : TRUE

\* the count of a text that mentions an account with @
MentionCount(s) ==
    LET ws == { w \in Words(s) : CountDigits(s, w) > 0 }
    IN  IF ws = {} THEN 10
        ELSE LET w == CHOOSE w \in ws : \A v \in ws : w[1] <= v[1]
                 n == ParseInt(SubSeq(s, w[1], w[1] + CountDigits(s, w) - 1))
             IN  IF n < 1 THEN 1 ELSE IF n > 30 THEN 30 ELSE n

\* the count of a text that is a bare name, optionally followed by a number
BareCount(s) ==
    IF Numbers(s) = {} \/ \A i \in 1..Len(s) : IsWordChar(s[i]) THEN 10
    ELSE LET d == CHOOSE d \in Numbers(s) : d[2] = Len(s)
             n == ParseInt(SubSeq(s, d[1], d[2]))
         IN  IF n < 1 THEN 1 ELSE IF n > 30 THEN 30 ELSE n

IsQuery(o) == Len(o) = 1

\* C15, as stated: the count of a data query is in [1,30]; it is a number
\* found in the text, clamped to [1,30], or 10 when the text holds no number.
C15_CountIsNumberFound ==
    parse.pc \in {"parsed", "routed"} /\ IsQuery(parse.parsed) =>
        LET s     == Utterance(parse.text)
            count == Val(parse.parsed)[2]
        IN  /\ count \in 1..30
            /\ IF Numbers(s) = {} THEN count = 10
               ELSE \E d \in Numbers(s) :
                       LET n == ParseInt(SubSeq(s, d[1], d[2]))
                       IN  count = IF n < 1 THEN 1 ELSE IF n > 30 THEN 30 ELSE n

\* C15, amended: the count of a data query is in [1,30]. For a text with an
\* @ mention it is the first word of the text that is one or two digits
\* (alone or directly followed by tweet(s) or post(s)), clamped to [1,30],
\* and 10 when the text has no such word, whatever other numbers it holds;
\* for a bare name it is the trailing number clamped to [1,30], or 10 when
\* there is none.
C15_CountInRange ==
    parse.pc \in {"parsed", "routed"} /\ IsQuery(parse.parsed) =>
        LET s     == Utterance(parse.text)
            count == Val(parse.parsed)[2]
        IN  /\ count \in 1..30
            /\ count = IF \E i \in 1..Len(s) : s[i] = "@" THEN MentionCount(s) ELSE BareCount(s)

C15_Witness ==
    /\ parse.pc = "parsed"
    /\ parse.text = <<"@", "b", "o", "b", " ", "1", "0", "0">>
    /\ parse.parsed = Some(<< <<"b", "o", "b">>, 10 >>)

\* the parser's answer, after the patterns in their order: an @ followed by
\* word characters gives the characters after the first such @, at most 15;
\* else a text that is 1-15 word characters, optionally followed by white
\* space and a number, and is no greeting gives that word; else no data query
FirstMatch(text, greeting) ==
    LET t    == Strip(text)
        ms   == { p \in 1..(Len(t) - 1) : t[p] = "@" /\ IsWordChar(t[p + 1]) }
        head == { w \in Words(t) : w[1] = 1 /\ w[2] <= 15 }
        bare == \E w \in head :
                   \/ w[2] = Len(t)
                   \/ \E d \in Numbers(t) :
                         /\ d[2] = Len(t)
                         /\ d[1] > w[2] + 1
                         /\ \A i \in (w[2] + 1)..(d[1] - 1) : IsSpace(t[i])
    IN  IF ms # {}
        THEN LET p == CHOOSE p \in ms : \A q \in ms : p <= q
                 w == CHOOSE w \in Words(t) : w[1] = p + 1
             IN  Some(SubSeq(t, p + 1, IF w[2] > p + 15 THEN p + 15 ELSE w[2]))
        ELSE IF bare /\ ~greeting
        THEN Some(SubSeq(t, 1, (CHOOSE w \in head : TRUE)[2]))
        ELSE None

\* C16: the parser raises no error on any text, and answers after the
\* patterns in their order: the name after the first @ mention, else the bare
\* name of a text that is no greeting, else no data query.
C16_FirstMatchWins ==
    parse.pc \in {"parsed", "routed"} =>
        /\ parse.parsed # ValueError
        /\ LET name == FirstMatch(parse.text, parse.greeting)
           IN  IF name = None THEN parse.parsed = None
               ELSE IsQuery(parse.parsed) /\ Val(parse.parsed)[1] = Val(name)

(***************************************************************************)
(* The synthesizer                                                         *)
(***************************************************************************)
\* the text an entry shows for an item: its content, else its text, else its
\* title, else nothing; at most 400 characters of it
Shown(item) ==
    LET f    == item.fields
        has(k) == k \in DOMAIN f /\ f[k] # <<>>
        t    == IF has("content") THEN f["content"]
                ELSE IF has("text") THEN f["text"]
                ELSE IF has("title") THEN f["title"]
                ELSE <<>>
    IN  IF Len(t) > 400 THEN SubSeq(t, 1, 400) ELSE t

\* where the numbered entries and the discrepancy notes of a prompt begin
EntryMarks(prompt) == { k \in 1..Len(prompt) : prompt[k] = ". " }
NoteMarks(prompt) == { k \in 1..Len(prompt) : prompt[k] = "\nNote: " }

\* the decimal digits that end just before position k
DigitsBefore(prompt, k) ==
    LET from == CHOOSE a \in 1..k :
                    /\ \A j \in a..(k - 1) : IsDigit(prompt[j])
                    /\ a = 1 \/ ~IsDigit(prompt[a - 1])
    IN  SubSeq(prompt, from, k - 1)

\* the decimal digits that begin just after position k
DigitsAfter(prompt, k) ==
    LET to == CHOOSE b \in k..Len(prompt) :
                  /\ \A j \in (k + 1)..b : IsDigit(prompt[j])
                  /\ b = Len(prompt) \/ ~IsDigit(prompt[b + 1])
    IN  SubSeq(prompt, k + 1, to)

\* C17: for a result with no error and n >= 1 items the prompt holds exactly
\* n numbered entries, numbered 1..n in the order of the items, each on a
\* line of its own and showing its item's text; and it holds the
\* discrepancy note, once, naming the requested count and n, exactly when
\* n < count.
C17_EntriesAndNote ==
    summary.pc = "returned" /\ summary.error = None /\ summary.items # <<>> =>
        LET prompt == summary.prompt
            n      == Len(summary.items)
            marks  == EntryMarks(prompt)
            notes  == NoteMarks(prompt)
            Mark(i) == CHOOSE k \in marks : Cardinality({ j \in marks : j < k }) = i - 1
        IN  /\ Cardinality(marks) = n
            /\ \A i \in 1..n :
                  LET k  == Mark(i)
                      ds == DigitsBefore(prompt, k)
                  IN  /\ ds # <<>>
                      /\ ParseInt(ds) = i
                      /\ prompt[k - Len(ds) - 1] = "\n"
                      /\ IsPrefix(Shown(summary.items[i]), SubSeq(prompt, k + 1, Len(prompt)))
            /\ (notes # {}) = (n < summary.count)
            /\ Cardinality(notes) <= 1
            /\ \A k \in notes :
                  LET ds == DigitsAfter(prompt, k)
                      m  == k + Len(ds) + 1
                  IN  /\ ds # <<>>
                      /\ ParseInt(ds) = summary.count
                      /\ prompt[m] = " tweets were requested but only "
                      /\ DigitsAfter(prompt, m) # <<>>
                      /\ ParseInt(DigitsAfter(prompt, m)) = n

C17_Witness ==
    /\ summary.pc = "returned"
    /\ summary.error = None
    /\ summary.items = TenItems
    /\ summary.count = 30
    /\ NoteMarks(summary.prompt) # {}
    /\ Cardinality(EntryMarks(summary.prompt)) = 10

(***************************************************************************)
(* The client lifecycle                                                    *)
(***************************************************************************)
\* request r has a call in flight that changes the lifecycle of a client:
\* the restart of the cached client or a step of _initialize_client
LifecycleStep(r) ==
    pc[r] \in {"await_restart", "await_with_api_key", "await_start", "await_discover",
               "await_connect"}

\* C18: every lifecycle transition of the shared client, initialization and
\* restart by start() alike, is made by the holder of _init_lock, so that no
\* two of them are in flight at once, and a caller that returns from
\* _ensure_client holds the client that is cached at that moment.
C18_LifecycleUnderLock ==
    /\ \A r \in Requests : LifecycleStep(r) => _init_lock = Some(r)
    /\ \A r, q \in Requests : LifecycleStep(r) /\ LifecycleStep(q) => r = q
    /\ \A r \in Requests : At(r, "browse") => loc[r].client = _client

(***************************************************************************)
(* The activity log of one call                                            *)
(***************************************************************************)
\* the ids of the entries of a log
Ids(log) == { log[i].id : i \in DOMAIN log }

\* C19: every call of sela_get_user_tweets that has returned appended at
\* least one entry: a call that succeeded (with items or with none) appended
\* the browse entry of its start and then the info entry of the retrieval,
\* a call that failed appended an error entry last; every entry ever
\* appended has an id of its own; and the steps of the call only append:
\* the log changes by one new entry at its end, with an id not in it, or,
\* in chat() before the call, by clear_activity_log().
C19_EveryAttemptLogged ==
    /\ [](\A r \in Requests :
            /\ FetchReturned(r) =>
                  LET log    == appended[r]
                      n      == Len(log)
                      tweets == Val(loc[r].tweets)
                  IN  /\ n >= 1
                      /\ tweets.error = None =>
                            /\ n >= 2
                            /\ log[n - 1].type = "browse"
                            /\ log[n - 1].platform = "twitter"
                            /\ log[n - 1].message[1] = "Fetching tweets for @"
                            /\ log[n].type = "info"
                            /\ log[n].platform = "twitter"
                            /\ log[n].message[1] = "Retrieved "
                      /\ tweets.error # None =>
                            /\ log[n].type = "error"
                            /\ log[n].platform = "twitter"
                            /\ log[n].message[1] = "Failed to fetch tweets for @"
            /\ Cardinality(Ids(appended[r])) = Len(appended[r])
            /\ \A q \in Requests \ {r} : Ids(appended[r]) \cap Ids(appended[q]) = {})
    /\ [][\/ _activity_log' = _activity_log
          \/ /\ Len(_activity_log') = Len(_activity_log) + 1
             /\ SubSeq(_activity_log', 1, Len(_activity_log)) = _activity_log
             /\ _activity_log'[Len(_activity_log')].id \notin Ids(_activity_log)
             /\ \E r \in Requests :
                   /\ Len(appended'[r]) = Len(appended[r]) + 1
                   /\ appended'[r][Len(appended'[r])] = _activity_log'[Len(_activity_log')]
          \/ /\ _activity_log' = <<>>
             /\ \E r \in Requests : pc[r] = "clear" /\ pc'[r] = "fetch"]_vars

C19_Witness ==
    \E r \in Requests :
        /\ FetchReturned(r)
        /\ Val(loc[r].tweets).error = None
        /\ Len(appended[r]) = 5
        /\ _activity_log = appended[r]

(***************************************************************************)
(* The simple reply                                                        *)
(***************************************************************************)
\* request r was answered by _stream_simple
Simple(r) == Returned(r) /\ "SimpleReply" \in Range(effects[r])

\* the text of a turn: a string content as it is, of a list content the
\* texts of its text parts with a space between them
TurnText(m) ==
    IF m.content.kind = "str" THEN m.content.text
    ELSE LET parts == m.content.parts
             texts == { i \in DOMAIN parts : parts[i].type = "text" }
             RECURSIVE From(_)
             From(i) == IF i > Len(parts) THEN <<>>
                        ELSE IF i \notin texts THEN From(i + 1)
                        ELSE parts[i].text
                               \o (IF \E j \in texts : j > i THEN <<" ">> ELSE <<>>)
                               \o From(i + 1)
         IN  From(1)

\* C20: a request answered by a simple reply (no user turn, first-turn
\* greeting, no data query) never called the fetch adapter and never cleared
\* or appended to the log; its response has no x-activity-log header and
\* hands every turn of the history, in order, with its role and its text,
\* to the completion source; a streaming response has the header exactly
\* when it is the enriched one; and no step of a request outside the
\* enriched branch changes the adapter's client, lock, last error or log.
C20_SimpleReplyLeavesAdapter ==
    /\ [](\A r \in Requests :
            /\ Simple(r) =>
                  LET messages == loc[r].messages
                      sent     == Val(response[r]).messages
                  IN  /\ effects[r][1] \in {"NoUserTurn", "FirstTurnGreeting", "IntentNone"}
                      /\ Range(effects[r]) \cap {"clear", "fetch", "fetched", "synthesize",
                                                 "read", "serialize"} = {}
                      /\ appended[r] = <<>>
                      /\ loc[r].tweets = None
                      /\ Val(response[r]).kind = "stream"
                      /\ Val(response[r]).activity_log = None
                      /\ Len(sent) = Len(messages)
                      /\ \A i \in DOMAIN messages :
                            /\ sent[i].role = messages[i].role
                            /\ sent[i].content = TurnText(messages[i])
                      /\ completion[r] # None => Val(completion[r]) = sent
            /\ Returned(r) /\ Val(response[r]).kind = "stream" =>
                  (Val(response[r]).activity_log # None) = Enriched(r))
    /\ [][\A r \in Requests :
             (pc'[r] # pc[r] \/ stream'[r] # stream[r])
                /\ "IntentDataQuery" \notin Range(effects'[r]) =>
                 UNCHANGED <<_client, _init_lock, _last_error, _activity_log, uuids, clients>>]_vars

C20_Witness ==
    \E r \in Requests :
        /\ Simple(r)
        /\ effects[r][1] = "IntentNone"
        /\ \E i \in DOMAIN loc[r].messages : loc[r].messages[i].content.kind = "parts"
        /\ completion[r] # None
        /\ stream[r].pc = "returned"
        /\ _activity_log # <<>>

(***************************************************************************)
(* A failed initialization                                                 *)
(***************************************************************************)
\* the labels of _initialize_client
InitLabels ==
    {"init", "await_with_api_key", "await_start", "await_discover", "await_connect"}

\* the step of request r in which _initialize_client raises
InitRaisesIn(r) == pc[r] \in InitLabels /\ pc'[r] = "fetch_except"

\* the step of request r in which _ensure_client returns a client
EnsureReturnsIn(r) == pc[r] # "browse" /\ pc'[r] = "browse"

\* C21: when _initialize_client raises, _client is None and _last_error is
\* set, and the exception becomes the error of that fetch's result; a call
\* that finds no cached client goes to the lock and, still finding none
\* under it, initializes again; and _ensure_client returns only the cached
\* client, after state() answered "running" for it, after its restart by
\* start() returned, or after its initialization was completed.
C21_NoBrokenClientCached ==
    /\ [](\A r \in Requests :
            FetchReturned(r)
               /\ (InitFailedIn(r)
                   \/ loc[r].exc = "SELA_API_KEY environment variable is not set") =>
                /\ Val(loc[r].tweets).error # None
                /\ Val(loc[r].tweets).items = <<>>)
    /\ [][\A r \in Requests :
             /\ InitRaisesIn(r) =>
                   /\ _client' = None
                   /\ _last_error' # None
                   /\ _init_lock' = None
             /\ pc[r] = "fetch" /\ pc'[r] # "fetch" /\ _client = None => pc'[r] = "lock"
             /\ pc[r] = "lock_check" /\ pc'[r] # "lock_check" /\ _client = None => pc'[r] = "init"
             /\ EnsureReturnsIn(r) =>
                   /\ pc[r] \in {"await_state", "await_state2", "await_restart", "await_connect"}
                   /\ loc'[r].client # None
                   /\ loc'[r].client = _client']_vars
=============================================================================
